---- MODULE Spec2Model ----
(***************************************************************************)
(* A model of CommandTool (src/src/tools/system_tools.py): one persistent  *)
(* bash subprocess per tool instance, fed commands through its stdin, two  *)
(* reader threads draining stdout and stderr into one queue, an end marker *)
(* echoed after every command, a polling loop with a timeout, and close()  *)
(* with its escalating shutdown.  Threads of the host program call _run    *)
(* and close concurrently; the shell, the readers and a forced kill of the *)
(* subprocess are the environment.                                         *)
(***************************************************************************)
EXTENDS Integers, Sequences, FiniteSets, TLC

(***************************************************************************)
(* Bounds of the model.                                                    *)
(***************************************************************************)
NumThreads == 2      \* threads of the host program that use the tool
MaxCalls == 2        \* _run / close calls made after construction
TimeoutPolls == 2    \* the 20 s command timeout, counted in empty 0.1 s polls
RecoveryPolls == 1   \* the 2 s recovery window, counted in empty 0.1 s polls
InitPolls == 1       \* the 5 s handshake window, counted in empty 0.1 s polls
MaxProcs == 2        \* subprocesses one tool instance may spawn
MaxTail == 4         \* length of the generated command tails (filter inputs)

Threads == 1..NumThreads

(***************************************************************************)
(* Text.  A Python str is a sequence of one-character strings.             *)
(***************************************************************************)
SP == " "

IsSpace(c) == c = SP

RECURSIVE LStrip(_)
LStrip(s) == IF s # <<>> /\ IsSpace(Head(s)) THEN LStrip(Tail(s)) ELSE s

RECURSIVE RStrip(_)
RStrip(s) ==
    IF s # <<>> /\ IsSpace(s[Len(s)]) THEN RStrip(SubSeq(s, 1, Len(s) - 1)) ELSE s

\* str.strip()
Strip(s) == RStrip(LStrip(s))

LowerChar(c) ==
    CASE c = "R" -> "r"
      [] c = "M" -> "m"
      [] c = "I" -> "i"
      [] OTHER -> c

\* str.lower()
Lower(s) == [i \in 1..Len(s) |-> LowerChar(s[i])]

\* str.startswith(p)
StartsWith(s, p) == Len(p) <= Len(s) /\ SubSeq(s, 1, Len(p)) = p

\* p in s, for strings
Contains(s, p) ==
    \E i \in 1..(Len(s) - Len(p) + 1) : SubSeq(s, i, i + Len(p) - 1) = p

S_rm_ == <<"r", "m", " ">>
S_mv_ == <<"m", "v", " ">>
S_mkfs == <<"m", "k", "f", "s">>
S_fdisk == <<"f", "d", "i", "s", "k">>
S_dd == <<"d", "d">>
S_shutdown == <<"s", "h", "u", "t", "d", "o", "w", "n">>
S_reboot == <<"r", "e", "b", "o", "o", "t">>
S_dash_i == <<"-", "i">>
S_interactive ==
    <<"-", "-", "i", "n", "t", "e", "r", "a", "c", "t", "i", "v", "e">>
S_terminate_session ==
    <<"t", "e", "r", "m", "i", "n", "a", "t", "e", "_",
      "s", "e", "s", "s", "i", "o", "n">>

\* dangerous_prefixes of _run
dangerous_prefixes ==
    {S_rm_, S_mkfs, S_fdisk, S_dd, S_shutdown, S_reboot, S_mv_}

\* command_lower_stripped of _run
command_lower_stripped(command) == Strip(Lower(command))

HasInteractiveText(s) == Contains(s, S_dash_i) \/ Contains(s, S_interactive)

\* is_dangerous_command_type of _run, as the code computes it
is_dangerous_command_type(command) ==
    LET s == command_lower_stripped(command) IN
    IF \E dp \in dangerous_prefixes : StartsWith(s, dp)
    THEN IF StartsWith(s, S_rm_) /\ HasInteractiveText(s) THEN FALSE
         ELSE IF StartsWith(s, S_mv_) /\ HasInteractiveText(s) THEN FALSE
         ELSE TRUE
    ELSE FALSE

\* command.strip() == "terminate_session"
IsTerminateSession(command) == Strip(command) = S_terminate_session

(***************************************************************************)
(* Output text.  A line read from a pipe, a buffer and a returned string   *)
(* are sequences of tokens: a token is a piece of text, a newline, or a    *)
(* marker carrying the time_ns() reading it was built from.                *)
(***************************************************************************)
Txt(x) == [k |-> x, s |-> 0]
NL == Txt("\n")
\* an end marker that is the same text for every command
EndMarkerFixed(stamp) == [k |-> "__END_OF_COMMAND_OUTPUT_", s |-> 0]

\* unique_end_marker = f"__END_OF_COMMAND_OUTPUT_{time.time_ns()}_{os.getpid()}__"
\* (os.getpid() is the host program's pid: the same in every marker of a run)
EndMarker(stamp) == [k |-> "__END_OF_COMMAND_OUTPUT_", s |-> stamp]
\* init_marker = f"__INIT_MARKER_{time.time_ns()}__"
InitMarker(stamp) == [k |-> "__INIT_MARKER_", s |-> stamp]
RecoverySuffix == Txt("_timeout_recovery")

\* marker in line
MarkerIn(line, mk) == \E i \in 1..Len(line) : line[i] = mk

\* the line as it is, its marker included
BeforeMarkerWholeLine(line, mk) == line

\* line.split(marker, 1)[0]
BeforeMarker(line, mk) ==
    LET i == CHOOSE j \in 1..Len(line) :
                 line[j] = mk /\ \A h \in 1..(j - 1) : line[h] # mk
    IN SubSeq(line, 1, i - 1)

\* f"{unique_end_marker}_timeout_recovery" in line
RecoveryMarkerIn(line, mk) ==
    \E i \in 1..(Len(line) - 1) : line[i] = mk /\ line[i + 1] = RecoverySuffix

IsBlank(tok) == tok = NL \/ tok = Txt(SP)

RECURSIVE LStripText(_)
LStripText(s) ==
    IF s # <<>> /\ IsBlank(Head(s)) THEN LStripText(Tail(s)) ELSE s

RECURSIVE RStripText(_)
RStripText(s) ==
    IF s # <<>> /\ IsBlank(s[Len(s)])
    THEN RStripText(SubSeq(s, 1, Len(s) - 1)) ELSE s

\* str.strip() of output text
StripText(s) == RStripText(LStripText(s))

\* "".join(buffer)
RECURSIVE Join(_)
Join(buf) == IF buf = <<>> THEN <<>> ELSE Head(buf) \o Join(Tail(buf))

\* "".join(buffer).strip()
JoinStrip(buf) == StripText(Join(buf))

(***************************************************************************)
(* The strings _run returns.  Each fixed message is one label token.       *)
(***************************************************************************)
MsgStartFailed == Txt("ERR: session could not be started or restarted")
MsgWriteRetryFailed == Txt("ERR: write failed even after restart")
MsgWriteRestartFailed == Txt("ERR: session could not restart after write failure")
MsgCrashed == Txt("ERR: bash terminated unexpectedly. stdout:")
MsgTimeout == Txt("ERR: command timed out. stdout:")
MsgStderrPart == Txt(" stderr:")
MsgSecurity == Txt("ERR: dangerous command forbidden:")
MsgStderrOnly == Txt("command error (from STDERR):")
MsgStdoutLabel == Txt("command output (from STDOUT):")
MsgStderrLabel == Txt("command error (from STDERR), after output:")
MsgNoOutput == Txt("command succeeded, no output")
MsgTermOk == Txt("session terminated and restarted")
MsgTermFail == Txt("ERR: session failed to restart")
MsgClosed == Txt("session closed")
RecoveryOutPrefix == Txt("[TIMEOUT_RECOVERY_OUTPUT] ")
RecoveryErrPrefix == Txt("[TIMEOUT_RECOVERY_ERROR] ")

\* A timeout message that leaves the buffers out
TimeoutResultBare(out, err) == <<MsgTimeout, MsgStderrPart>>

\* line 327
TimeoutResult(out, err) ==
    <<MsgTimeout>> \o JoinStrip(out) \o <<MsgStderrPart>> \o JoinStrip(err)

\* line 298
CrashedResult(out, err) ==
    <<MsgCrashed>> \o JoinStrip(out) \o <<MsgStderrPart>> \o JoinStrip(err)

\* A composition that returns stdout alone whenever there is some
CompletedResultStdoutFirst(out, err) ==
    LET stdout_result == JoinStrip(out)
        stderr_result == JoinStrip(err)
    IN IF stdout_result # <<>> THEN stdout_result
       ELSE IF stderr_result # <<>> THEN <<MsgStderrOnly>> \o stderr_result
       ELSE <<MsgNoOutput>>

\* lines 329-338
CompletedResult(out, err) ==
    LET stdout_result == JoinStrip(out)
        stderr_result == JoinStrip(err)
    IN IF stderr_result # <<>>
       THEN IF stdout_result = <<>>
            THEN <<MsgStderrOnly>> \o stderr_result
            ELSE <<MsgStdoutLabel, NL>> \o stdout_result
                 \o <<NL, MsgStderrLabel, NL>> \o stderr_result
       ELSE IF stdout_result # <<>> THEN stdout_result ELSE <<MsgNoOutput>>

\* line 376
SecurityResult(command) ==
    LET c == Strip(command) IN <<MsgSecurity>> \o [i \in 1..Len(c) |-> Txt(c[i])]

\* The outcome class a returned string belongs to.
ResultClass(r) ==
    IF r = <<>> THEN "None"
    ELSE CASE Head(r) = MsgTimeout -> "Timeout"
           [] Head(r) = MsgCrashed -> "Crashed"
           [] Head(r) = MsgSecurity -> "SecurityBlocked"
           [] Head(r) = MsgStartFailed -> "StartFailed"
           [] Head(r) = MsgWriteRestartFailed -> "StartFailed"
           [] Head(r) = MsgWriteRetryFailed -> "WriteFailed"
           [] Head(r) = MsgTermOk -> "Terminated"
           [] Head(r) = MsgTermFail -> "StartFailed"
           [] Head(r) = MsgClosed -> "Closed"
           [] OTHER -> "Success"

(***************************************************************************)
(* The commands the callers of the model submit, and what bash does with   *)
(* them.                                                                   *)
(***************************************************************************)
C_pwd == <<"p", "w", "d">>
C_cd == <<"c", "d", " ", "D">>
C_find == <<"f", "i", "n", "d", " ", "/">>
C_rm == <<"r", "m", " ", "-", "r", "f", " ", "/">>
C_echo_n == <<"e", "c", "h", "o", " ", "-", "n", " ", "x">>
Commands == {C_pwd, C_cd, C_find, C_rm, C_echo_n, S_terminate_session}

Home == "~"

\* What one command line does in bash: the lines it writes to stdout and to
\* stderr, the text it leaves on stdout with no newline after it (part), the
\* working directory it leaves, and whether it keeps bash busy.
ShellEffect(c, cwd) ==
    CASE c = C_pwd ->
           [out |-> <<<<Txt(cwd), NL>>>>, err |-> <<>>, part |-> <<>>,
            cwd |-> cwd, hang |-> FALSE]
      [] c = C_cd ->
           [out |-> <<>>, err |-> <<>>, part |-> <<>>, cwd |-> "D",
            hang |-> FALSE]
      [] c = C_find ->
           \* reports what it may not read, and runs on
           [out |-> <<>>,
            err |-> <<<<Txt("find: /root: Permission denied"), NL>>>>,
            part |-> <<>>, cwd |-> cwd, hang |-> TRUE]
      [] c = C_echo_n ->
           [out |-> <<>>, err |-> <<>>, part |-> <<Txt("x")>>, cwd |-> cwd,
            hang |-> FALSE]
      [] OTHER ->
           [out |-> <<>>, err |-> <<>>, part |-> <<>>, cwd |-> cwd,
            hang |-> FALSE]

\* The lines written to the subprocess stdin.  "by" is the call that wrote
\* the line (0: the launch handshake).
CmdLine(c, by) == [k |-> "cmd", c |-> c, m |-> 0, by |-> by]
EchoLine(stamp, by) == [k |-> "echo", c |-> <<>>, m |-> stamp, by |-> by]
InitEchoLine(stamp) == [k |-> "initecho", c |-> <<>>, m |-> stamp, by |-> 0]
\* "\x03" followed by f"echo {unique_end_marker}_timeout_recovery\n"
InterruptLine(stamp, by) == [k |-> "intr", c |-> <<>>, m |-> stamp, by |-> by]
ExitLine(by) == [k |-> "exit", c |-> <<>>, m |-> 0, by |-> by]

VARIABLES
    pc,            \* where each thread is
    ret,           \* what the thread does after the close / _start_session it is in
    cmd,           \* the command of the thread's _run call
    loc,           \* locals of _execute_raw_command_in_session and _start_session
    result,        \* the string the thread's last call returned
    callid,        \* the number of the thread's current (or last) call
    lock,          \* self._lock: 0 free, else the thread holding it
    bash_process,  \* self.bash_process: 0 None, else the subprocess
    output_queue,  \* self.output_queue: 0 None, else the queue of that launch
    procs,         \* the subprocesses spawned so far
    queue,         \* the queue.Queue created at each launch
    ns,            \* the last time.time_ns() reading
    ticked,        \* a 0.1 s wait elapsed since that reading
    calls,         \* calls started so far
    wlog,          \* history: the calls that wrote to a subprocess stdin, in
                   \* the order of their writes (a call's successive writes
                   \* are one entry)
    issued,        \* history: the stamps of the end markers generated
    ran,           \* history: what bash wrote while running the command of
                   \* each thread's current call
    users,         \* the threads that use the tool once it is constructed
    bash_path,     \* history: what the last _find_bash() returned ("unset"
                   \* before the first call, "none" for None)
    slow_host,     \* the host is loaded: a bash it spawns has not begun to
                   \* read its stdin when Popen returns
    init_success,  \* history: init_success of the last launch that reached
                   \* the handshake ("unset" before it, "seen", "missed")
    session        \* the PersistentBashSession object of the test module and
                   \* its bash subprocesses ([pc |-> "off"] where there is none)

vars == <<pc, ret, cmd, loc, result, callid, lock, bash_process, output_queue,
          procs, queue, ns, ticked, calls, wlog, issued, ran, users,
          bash_path, slow_host, init_success, session>>

threadVars == <<pc, ret, cmd, loc, result, callid, calls, users, bash_path,
                slow_host, init_success, session>>
sessionVars == <<lock, bash_process, output_queue>>
worldVars == <<procs, queue>>
clockVars == <<ns, ticked>>
histVars == <<wlog, issued, ran>>

\* marker, out, err: unique_end_marker, output_buffer, stderr_buffer;
\* elapsed, relapsed: the 0.1 s waits since start_time, recovery_start_time;
\* seen (history): the queue entries the loop of line 271 consumed;
\* prev (history): the command and outcome of the thread's previous call;
\* sess (history): the self.bash_process the call found running (line 226,
\* line 255 after a restart, line 386 in close);
\* intr (history): the call wrote the interrupt and the recovery echo
NoPrev == [c |-> <<>>, cls |-> "None"]
NoLoc == [marker |-> 0, out |-> <<>>, err |-> <<>>, elapsed |-> 0,
          relapsed |-> 0, seen |-> <<>>, prev |-> NoPrev, sess |-> 0,
          intr |-> FALSE]
\* started, done, out, err: the command of the call ran, ended, and wrote
\* these lines; echoed: bash ran the echo of the call's end marker
NoRan == [started |-> FALSE, done |-> FALSE, out |-> <<>>, err |-> <<>>,
          echoed |-> FALSE]

\* The fields as declared (lines 43-47), before __init__ calls _start_session:
\* thread 1 constructs the tool, the others wait for it.
Fields ==
    /\ pc = [t \in Threads |-> IF t = 1 THEN "ss_lock" ELSE "idle"]
    /\ ret = [t \in Threads |-> IF t = 1 THEN "ctor" ELSE "none"]
    /\ cmd = [t \in Threads |-> <<>>]
    /\ loc = [t \in Threads |-> NoLoc]
    /\ result = [t \in Threads |-> <<>>]
    /\ callid = [t \in Threads |-> 0]
    /\ lock = 0
    /\ bash_process = 0
    /\ output_queue = 0
    /\ procs = <<>>
    /\ queue = <<>>
    /\ ns = 0
    /\ ticked = TRUE
    /\ calls = 0
    /\ wlog = <<>>
    /\ issued = <<>>
    /\ ran = [t \in Threads |-> NoRan]
    /\ bash_path = "unset"
    /\ init_success = "unset"
    /\ session = [pc |-> "off"]

\* Every thread of the host program uses the tool.
Init == Fields /\ users = Threads /\ slow_host = FALSE

\* One thread uses the tool: it constructs it and makes every call.
InitSeq == Fields /\ users = {1} /\ slow_host = FALSE

\* One thread uses the tool on a loaded host.
InitSlow == Fields /\ users = {1} /\ slow_host = TRUE

Constructed == ret[1] # "ctor"

\* subprocess.Popen(...): a running bash in the home directory, pipes empty,
\* with the two reader threads of lines 152-153; on a loaded host bash is
\* still starting up
NewProcess ==
    [alive |-> TRUE, stdin |-> <<>>, busy |-> slow_host, cwd |-> Home,
     outpipe |-> <<>>, errpipe |-> <<>>, part |-> <<>>]

\* The subprocess p after it wrote the lines to its stdout: the text left
\* without a newline begins the next line the reader thread gets.
Emit(p, lines) ==
    IF lines = <<>> THEN p
    ELSE [p EXCEPT !.outpipe = @ \o <<p.part \o Head(lines)>> \o Tail(lines),
                   !.part = <<>>]

\* The subprocess p once it has exited: readline() returns the text left
\* without a newline at the end of the stream.
Exited(p) ==
    [p EXCEPT !.alive = FALSE, !.busy = FALSE, !.stdin = <<>>,
              !.outpipe = IF p.part = <<>> THEN @ ELSE Append(@, p.part),
              !.part = <<>>]

\* Popen.poll() is None
Alive(p) == p # 0 /\ procs[p].alive

\* self.bash_process and self.bash_process.poll() is None
SessionRunning == bash_process # 0 /\ Alive(bash_process)

(***************************************************************************)
(* time.time_ns().  The system clock never goes back, and two readings     *)
(* with no 0.1 s wait between them may be the same value.                  *)
(***************************************************************************)
TimeNsReadings == IF ticked THEN {ns + 1} ELSE {ns, ns + 1}

(***************************************************************************)
(* The environment: bash, the reader threads, a forced kill.               *)
(***************************************************************************)
\* bash reads the next line of its stdin and runs it
ShellStep(i) ==
    /\ i \in 1..Len(procs)
    /\ procs[i].alive /\ ~procs[i].busy /\ procs[i].stdin # <<>>
    /\ LET p == procs[i]
           item == Head(p.stdin)
           rest == [p EXCEPT !.stdin = Tail(p.stdin)]
           eff == ShellEffect(item.c, p.cwd)
       IN /\ procs' =
               [procs EXCEPT ![i] =
                  CASE item.k = "cmd" ->
                         [Emit(rest, eff.out) EXCEPT !.errpipe = @ \o eff.err,
                                                     !.part = @ \o eff.part,
                                                     !.cwd = eff.cwd,
                                                     !.busy = eff.hang]
                    [] item.k = "echo" ->
                         Emit(rest, <<<<EndMarker(item.m), NL>>>>)
                    [] item.k = "initecho" ->
                         Emit(rest, <<<<InitMarker(item.m), NL>>>>)
                    [] item.k = "intr" ->
                         \* the \x03 byte is part of the command word
                         [rest EXCEPT !.errpipe =
                              @ \o <<<<Txt("bash: \\003echo: command not found"), NL>>>>]
                    [] OTHER -> \* exit
                         Exited(rest)]
          /\ ran' = [t \in Threads |->
                      IF item.by # callid[t] \/ pc[t] = "idle" THEN ran[t]
                      ELSE IF item.k = "cmd"
                      THEN [ran[t] EXCEPT !.started = TRUE, !.done = ~eff.hang,
                                          !.out = eff.out \o (IF eff.part = <<>> THEN <<>>
                                                               ELSE <<eff.part>>),
                                          !.err = eff.err]
                      ELSE IF item.k = "echo"
                      THEN [ran[t] EXCEPT !.echoed = TRUE]
                      ELSE ran[t]]
    /\ UNCHANGED <<threadVars, sessionVars, queue, clockVars, wlog, issued>>

\* a command that kept bash busy ends
ShellFinish(i) ==
    /\ i \in 1..Len(procs)
    /\ procs[i].alive /\ procs[i].busy
    /\ procs' = [procs EXCEPT ![i].busy = FALSE]
    /\ ran' = [t \in Threads |->
                IF ran[t].started /\ pc[t] # "idle"
                THEN [ran[t] EXCEPT !.done = TRUE] ELSE ran[t]]
    /\ UNCHANGED <<threadVars, sessionVars, queue, clockVars, wlog, issued>>

\* the subprocess is forcibly terminated from outside
Kill(i) ==
    /\ i \in 1..Len(procs)
    /\ procs[i].alive
    /\ procs' = [procs EXCEPT ![i] = Exited(@)]
    /\ UNCHANGED <<threadVars, sessionVars, queue, clockVars, histVars>>

\* A reader that puts each line it reads in front of the queue
ReadStdoutPrepends(i) ==
    /\ i \in 1..Len(procs)
    /\ procs[i].outpipe # <<>>
    /\ queue' = [queue EXCEPT ![i] = <<<<"STDOUT", Head(procs[i].outpipe)>>>> \o @]
    /\ procs' = [procs EXCEPT ![i].outpipe = Tail(@)]
    /\ UNCHANGED <<threadVars, sessionVars, clockVars, histVars>>

\* _read_output on stdout: q.put((stream_name, line)) for each line read
ReadStdout(i) ==
    /\ i \in 1..Len(procs)
    /\ procs[i].outpipe # <<>>
    /\ queue' = [queue EXCEPT ![i] = Append(@, <<"STDOUT", Head(procs[i].outpipe)>>)]
    /\ procs' = [procs EXCEPT ![i].outpipe = Tail(@)]
    /\ UNCHANGED <<threadVars, sessionVars, clockVars, histVars>>

\* A stderr reader that drops the session's handle when its stream ends
ReadStderrDropsSession(i) ==
    /\ i \in 1..Len(procs)
    /\ procs[i].errpipe # <<>>
    /\ queue' = [queue EXCEPT ![i] = Append(@, <<"STDERR", Head(procs[i].errpipe)>>)]
    /\ procs' = [procs EXCEPT ![i].errpipe = Tail(@)]
    /\ bash_process' = IF ~procs[i].alive /\ Len(procs[i].errpipe) = 1
                       THEN 0 ELSE bash_process
    /\ UNCHANGED <<threadVars, lock, output_queue, clockVars, histVars>>

\* _read_output on stderr
ReadStderr(i) ==
    /\ i \in 1..Len(procs)
    /\ procs[i].errpipe # <<>>
    /\ queue' = [queue EXCEPT ![i] = Append(@, <<"STDERR", Head(procs[i].errpipe)>>)]
    /\ procs' = [procs EXCEPT ![i].errpipe = Tail(@)]
    /\ UNCHANGED <<threadVars, sessionVars, clockVars, histVars>>

\* Timing.  One step of bash or of a reader thread takes far less than the
\* 0.1 s of one queue.get(timeout=0.1): a wait on the queue or on the process
\* runs out only when nothing is on its way, that is when bash is busy with
\* a long-running command, has nothing to read, or is gone.
Settled ==
    \A i \in 1..Len(procs) :
        /\ procs[i].outpipe = <<>>
        /\ procs[i].errpipe = <<>>
        /\ ~(procs[i].alive /\ ~procs[i].busy /\ procs[i].stdin # <<>>)

(***************************************************************************)
(* Helpers of the thread actions.                                          *)
(***************************************************************************)
Goto(t, l) == pc' = [pc EXCEPT ![t] = l]

\* stdin.write(...); stdin.flush() on subprocess p by call c
WriteStdin(p, items, c) ==
    /\ procs' = [procs EXCEPT ![p].stdin = @ \o items]
    /\ wlog' = IF wlog # <<>> /\ wlog[Len(wlog)] = c THEN wlog ELSE Append(wlog, c)

\* A return that leaves the lock held
ReturnKeepsLock(t, r) ==
    /\ Goto(t, "idle")
    /\ result' = [result EXCEPT ![t] = r]
    /\ ret' = [ret EXCEPT ![t] = "none"]
    /\ UNCHANGED lock

\* the return of _run (or of an external close): the with block releases
\* self._lock and the caller gets r
Return(t, r) ==
    /\ Goto(t, "idle")
    /\ result' = [result EXCEPT ![t] = r]
    /\ ret' = [ret EXCEPT ![t] = "none"]
    /\ lock' = 0

(***************************************************************************)
(* _start_session, lines 125-182.                                          *)
(***************************************************************************)
\* lines 127-153: with self._lock; already running; _find_bash; Popen, the
\* queue and the two reader threads
StartLock(t) ==
    /\ pc[t] = "ss_lock"
    /\ lock = 0
    /\ lock' = t
    /\ IF SessionRunning
       THEN /\ Goto(t, "ss_ret")
            /\ UNCHANGED <<bash_process, output_queue, procs, queue, bash_path>>
       ELSE \E outcome \in {"notfound", "spawnfailed", "spawned"} :
              /\ bash_path' = IF outcome = "notfound" THEN "none" ELSE "found"
              /\ IF outcome = "spawned"
                 THEN /\ Len(procs) < MaxProcs
                      /\ procs' = Append(procs, NewProcess)
                      /\ queue' = Append(queue, <<>>)
                      /\ bash_process' = Len(procs) + 1
                      /\ output_queue' = Len(procs) + 1
                      /\ Goto(t, "ss_write")
                 ELSE /\ bash_process' = 0
                      /\ Goto(t, "ss_ret")
                      /\ UNCHANGED <<output_queue, procs, queue>>
    /\ UNCHANGED <<ret, cmd, loc, result, callid, calls, clockVars, histVars,
                   users, slow_host, init_success, session>>

\* lines 158-160: write the echo of the init marker; an exception (broken
\* pipe) is caught at line 180 and clears bash_process
StartWrite(t) ==
    /\ pc[t] = "ss_write"
    /\ \E stamp \in TimeNsReadings :
         /\ ns' = stamp
         /\ ticked' = FALSE
         /\ IF Alive(bash_process)
            THEN /\ WriteStdin(bash_process, <<InitEchoLine(stamp)>>, 0)
                 /\ loc' = [loc EXCEPT ![t] = [NoLoc EXCEPT !.marker = stamp]]
                 /\ Goto(t, "ss_poll")
                 /\ UNCHANGED bash_process
            ELSE /\ bash_process' = 0
                 /\ Goto(t, "ss_ret")
                 /\ UNCHANGED <<procs, wlog, loc>>
    /\ UNCHANGED <<ret, cmd, result, callid, calls, lock, output_queue, queue,
                   issued, ran, users, bash_path, slow_host, init_success, session>>

\* a handshake that gives the launch up when the init marker does not come
StartPollStrict(t) ==
    /\ pc[t] = "ss_poll"
    /\ IF loc[t].elapsed >= InitPolls
       THEN /\ Goto(t, "ss_ret")
            /\ init_success' = "missed"
            /\ bash_process' = 0
            /\ UNCHANGED <<loc, queue, ticked>>
       ELSE IF queue[output_queue] # <<>>
       THEN LET line == Head(queue[output_queue])[2] IN
            /\ queue' = [queue EXCEPT ![output_queue] = Tail(@)]
            /\ IF MarkerIn(line, InitMarker(loc[t].marker))
               THEN /\ Goto(t, "ss_ret")
                    /\ init_success' = "seen"
               ELSE UNCHANGED <<pc, init_success>>
            /\ UNCHANGED <<loc, ticked, bash_process>>
       ELSE /\ Settled
            /\ loc' = [loc EXCEPT ![t].elapsed = @ + 1]
            /\ ticked' = TRUE
            /\ UNCHANGED <<pc, queue, init_success, bash_process>>
    /\ UNCHANGED <<ret, cmd, result, callid, calls, lock, output_queue, procs,
                   ns, histVars, users, bash_path, slow_host, session>>

\* lines 166-177: poll for the init marker for at most init_timeout; its
\* absence is logged (line 177) and the launch goes on
StartPoll(t) ==
    /\ pc[t] = "ss_poll"
    /\ IF loc[t].elapsed >= InitPolls
       THEN /\ Goto(t, "ss_ret")
            /\ init_success' = "missed"
            /\ UNCHANGED <<loc, queue, ticked>>
       ELSE IF queue[output_queue] # <<>>
       THEN LET line == Head(queue[output_queue])[2] IN
            /\ queue' = [queue EXCEPT ![output_queue] = Tail(@)]
            /\ IF MarkerIn(line, InitMarker(loc[t].marker))
               THEN /\ Goto(t, "ss_ret")
                    /\ init_success' = "seen"
               ELSE UNCHANGED <<pc, init_success>>
            /\ UNCHANGED <<loc, ticked>>
       ELSE /\ Settled
            /\ loc' = [loc EXCEPT ![t].elapsed = @ + 1]
            /\ ticked' = TRUE
            /\ UNCHANGED <<pc, queue, init_success>>
    /\ UNCHANGED <<ret, cmd, result, callid, calls, sessionVars, procs, ns,
                   histVars, users, bash_path, slow_host, session>>

\* The write of lines 258-259 (the retry after a restart)
RetryWrite(t) ==
    IF Alive(bash_process)
    THEN /\ WriteStdin(bash_process,
                       <<CmdLine(cmd[t], callid[t]),
                         EchoLine(loc[t].marker, callid[t])>>, callid[t])
         /\ Goto(t, "ex_poll")
         /\ lock' = 0
         /\ UNCHANGED <<result, ret, queue>>
    ELSE /\ Return(t, <<MsgWriteRetryFailed>>)
         /\ UNCHANGED <<procs, wlog, queue>>

\* The end of _start_session: the with block releases self._lock, and the
\* caller goes on: __init__ is done (line 52); lines 230-238 after the restart
\* of line 229; lines 255-263 after the restart of line 254; lines 349-352
\* after the restart of line 348.
StartReturn(t) ==
    /\ pc[t] = "ss_ret"
    /\ CASE ret[t] = "ex_restarted" ->
              /\ IF ~SessionRunning
                 THEN /\ Return(t, <<MsgStartFailed>>)
                      /\ UNCHANGED queue
                 ELSE /\ queue' = [queue EXCEPT ![output_queue] = <<>>]
                      /\ Goto(t, "ex_write")
                      /\ lock' = 0
                      /\ UNCHANGED <<result, ret>>
              /\ UNCHANGED <<procs, wlog>>
         [] ret[t] = "ex_retry" ->
              IF SessionRunning
              THEN RetryWrite(t)
              ELSE /\ Return(t, <<MsgWriteRestartFailed>>)
                   /\ UNCHANGED <<procs, wlog, queue>>
         [] ret[t] = "term_done" ->
              /\ Return(t, IF SessionRunning THEN <<MsgTermOk>> ELSE <<MsgTermFail>>)
              /\ UNCHANGED <<procs, wlog, queue>>
         [] OTHER -> \* "ctor"
              /\ Return(t, <<>>)
              /\ UNCHANGED <<procs, wlog, queue>>
    /\ UNCHANGED <<cmd, callid, calls, bash_process, output_queue,
                   clockVars, issued, ran, users, bash_path, slow_host, init_success, session>>
    /\ loc' = [loc EXCEPT ![t].sess =
                 IF pc'[t] \in {"ex_write", "ex_poll"} THEN bash_process ELSE @]

(***************************************************************************)
(* The callers: after construction a thread calls _run(command) or close().*)
(***************************************************************************)
CallRun(t) ==
    /\ t \in users
    /\ pc[t] = "idle" /\ Constructed /\ calls < MaxCalls
    /\ \E c \in Commands : cmd' = [cmd EXCEPT ![t] = c]
    /\ calls' = calls + 1
    /\ callid' = [callid EXCEPT ![t] = calls + 1]
    /\ UNCHANGED <<users, bash_path, slow_host, init_success, session>>
    /\ loc' = [loc EXCEPT ![t] =
                 [NoLoc EXCEPT !.prev = [c |-> cmd[t],
                                         cls |-> ResultClass(result[t])]]]
    /\ result' = [result EXCEPT ![t] = <<>>]
    /\ ran' = [ran EXCEPT ![t] = NoRan]
    /\ Goto(t, "run_lock")
    /\ UNCHANGED <<ret, sessionVars, worldVars, clockVars, wlog, issued>>

CallClose(t) ==
    /\ t \in users
    /\ pc[t] = "idle" /\ Constructed /\ calls < MaxCalls
    /\ calls' = calls + 1
    /\ callid' = [callid EXCEPT ![t] = calls + 1]
    /\ UNCHANGED <<users, bash_path, slow_host, init_success, session>>
    /\ cmd' = [cmd EXCEPT ![t] = <<>>]
    /\ loc' = [loc EXCEPT ![t] = NoLoc]
    /\ result' = [result EXCEPT ![t] = <<>>]
    /\ ret' = [ret EXCEPT ![t] = "ext"]
    /\ ran' = [ran EXCEPT ![t] = NoRan]
    /\ Goto(t, "cl_lock")
    /\ UNCHANGED <<sessionVars, worldVars, clockVars, wlog, issued>>

(***************************************************************************)
(* _run, lines 340-381.                                                    *)
(***************************************************************************)
\* _run with the security check placed after the queue is emptied
RunBeginDrainsFirst(t) ==
    /\ pc[t] = "run_lock"
    /\ lock = 0
    /\ IF IsTerminateSession(cmd[t])
       THEN /\ lock' = t
            /\ Goto(t, "cl_lock")
            /\ ret' = [ret EXCEPT ![t] = "term_done"]
            /\ UNCHANGED <<result, queue>>
       ELSE IF is_dangerous_command_type(cmd[t])
       THEN /\ Return(t, SecurityResult(cmd[t]))
            /\ queue' = IF SessionRunning
                        THEN [queue EXCEPT ![output_queue] = <<>>] ELSE queue
       ELSE IF ~SessionRunning
       THEN /\ lock' = t
            /\ Goto(t, "cl_lock")
            /\ ret' = [ret EXCEPT ![t] = "ex_restarted"]
            /\ UNCHANGED <<result, queue>>
       ELSE /\ lock' = t
            /\ queue' = [queue EXCEPT ![output_queue] = <<>>]
            /\ Goto(t, "ex_write")
            /\ UNCHANGED <<ret, result>>
    /\ UNCHANGED <<cmd, callid, calls, bash_process, output_queue, procs,
                   clockVars, histVars, users, bash_path, slow_host, init_success, session>>
    /\ loc' = [loc EXCEPT ![t].sess =
                 IF pc'[t] = "ex_write" THEN bash_process' ELSE @]

\* _run writing the command without looking at the subprocess first
RunBeginUnchecked(t) ==
    /\ pc[t] = "run_lock"
    /\ lock = 0
    /\ IF IsTerminateSession(cmd[t])
       THEN /\ lock' = t
            /\ Goto(t, "cl_lock")
            /\ ret' = [ret EXCEPT ![t] = "term_done"]
            /\ UNCHANGED <<result, queue>>
       ELSE IF is_dangerous_command_type(cmd[t])
       THEN /\ Return(t, SecurityResult(cmd[t]))
            /\ UNCHANGED queue
       ELSE /\ lock' = t
            /\ queue' = IF output_queue = 0 THEN queue
                        ELSE [queue EXCEPT ![output_queue] = <<>>]
            /\ Goto(t, "ex_write")
            /\ UNCHANGED <<ret, result>>
    /\ UNCHANGED <<cmd, loc, callid, calls, bash_process, output_queue, procs,
                   clockVars, histVars, users, bash_path, slow_host,
                   init_success, session>>

\* _run launching a subprocess for each command it forwards
RunBeginRespawns(t) ==
    /\ pc[t] = "run_lock"
    /\ lock = 0
    /\ IF IsTerminateSession(cmd[t])
       THEN /\ lock' = t
            /\ Goto(t, "cl_lock")
            /\ ret' = [ret EXCEPT ![t] = "term_done"]
            /\ UNCHANGED <<result, queue, procs, bash_process, output_queue>>
       ELSE IF is_dangerous_command_type(cmd[t])
       THEN /\ Return(t, SecurityResult(cmd[t]))
            /\ UNCHANGED <<queue, procs, bash_process, output_queue>>
       ELSE IF ~SessionRunning
       THEN /\ lock' = t
            /\ Goto(t, "cl_lock")
            /\ ret' = [ret EXCEPT ![t] = "ex_restarted"]
            /\ UNCHANGED <<result, queue, procs, bash_process, output_queue>>
       ELSE /\ lock' = t
            /\ Len(procs) < MaxProcs
            /\ procs' = Append(procs, NewProcess)
            /\ queue' = Append(queue, <<>>)
            /\ bash_process' = Len(procs) + 1
            /\ output_queue' = Len(procs) + 1
            /\ Goto(t, "ex_write")
            /\ UNCHANGED <<ret, result>>
    /\ UNCHANGED <<cmd, callid, calls, clockVars, histVars, users, bash_path, slow_host, init_success, session>>
    /\ loc' = [loc EXCEPT ![t].sess =
                 IF pc'[t] = "ex_write" THEN bash_process' ELSE @]

\* lines 341-378, 226-238: with self._lock; terminate_session calls
\* close(restarting=True); a dangerous command returns the refusal; anything
\* else enters _execute_raw_command_in_session, where a session that is not
\* running is closed to be restarted, and a running one has its queue emptied
RunBegin(t) ==
    /\ pc[t] = "run_lock"
    /\ lock = 0
    /\ IF IsTerminateSession(cmd[t])
       THEN /\ lock' = t
            /\ Goto(t, "cl_lock")
            /\ ret' = [ret EXCEPT ![t] = "term_done"]
            /\ UNCHANGED <<result, queue>>
       ELSE IF is_dangerous_command_type(cmd[t])
       THEN /\ Return(t, SecurityResult(cmd[t]))
            /\ UNCHANGED queue
       ELSE IF ~SessionRunning
       THEN /\ lock' = t
            /\ Goto(t, "cl_lock")
            /\ ret' = [ret EXCEPT ![t] = "ex_restarted"]
            /\ UNCHANGED <<result, queue>>
       ELSE /\ lock' = t
            /\ queue' = [queue EXCEPT ![output_queue] = <<>>]
            /\ Goto(t, "ex_write")
            /\ UNCHANGED <<ret, result>>
    /\ UNCHANGED <<cmd, callid, calls, bash_process, output_queue, procs,
                   clockVars, histVars, users, bash_path, slow_host, init_success, session>>
    /\ loc' = [loc EXCEPT ![t].sess =
                 IF pc'[t] = "ex_write" THEN bash_process' ELSE @]

(***************************************************************************)
(* _execute_raw_command_in_session, lines 225-338.                         *)
(***************************************************************************)
\* The write of the command with self._lock released once it is done
ExecWriteUnlocks(t) ==
    /\ pc[t] = "ex_write"
    /\ \E stamp \in TimeNsReadings :
         /\ ns' = stamp
         /\ ticked' = FALSE
         /\ issued' = Append(issued, stamp)
         /\ loc' = [loc EXCEPT ![t].marker = stamp]
         /\ IF Alive(bash_process)
            THEN /\ WriteStdin(bash_process,
                               <<CmdLine(cmd[t], callid[t]),
                                 EchoLine(stamp, callid[t])>>, callid[t])
                 /\ Goto(t, "ex_poll")
                 /\ lock' = 0
                 /\ UNCHANGED ret
            ELSE /\ Goto(t, "cl_lock")
                 /\ ret' = [ret EXCEPT ![t] = "ex_retry"]
                 /\ UNCHANGED <<procs, wlog, lock>>
    /\ UNCHANGED <<cmd, result, callid, calls, bash_process, output_queue,
                   queue, ran, users, bash_path, slow_host, init_success, session>>

\* lines 241-254: build the marker, write command and echo; a failed write
\* calls close(restarting=True)
ExecWrite(t) ==
    /\ pc[t] = "ex_write"
    /\ \E stamp \in TimeNsReadings :
         /\ ns' = stamp
         /\ ticked' = FALSE
         /\ issued' = Append(issued, stamp)
         /\ loc' = [loc EXCEPT ![t].marker = stamp]
         /\ IF Alive(bash_process)
            THEN /\ WriteStdin(bash_process,
                               <<CmdLine(cmd[t], callid[t]),
                                 EchoLine(stamp, callid[t])>>, callid[t])
                 /\ Goto(t, "ex_poll")
                 /\ UNCHANGED ret
            ELSE /\ Goto(t, "cl_lock")
                 /\ ret' = [ret EXCEPT ![t] = "ex_retry"]
                 /\ UNCHANGED <<procs, wlog>>
    /\ UNCHANGED <<cmd, result, callid, calls, sessionVars, queue, ran, users, bash_path, slow_host, init_success, session>>

\* output_buffer.append / stderr_buffer.append
Buffered(l, stream, text) ==
    IF stream = "STDOUT" THEN [l EXCEPT !.out = Append(@, text)]
    ELSE [l EXCEPT !.err = Append(@, text)]

\* A polling loop that gives up one poll before the timeout has elapsed
ExecPollHasty(t) ==
    /\ pc[t] = "ex_poll"
    /\ IF loc[t].elapsed >= TimeoutPolls - 1
       THEN /\ Goto(t, "ex_intr")
            /\ UNCHANGED <<loc, queue, ticked, ret, result, lock>>
       ELSE IF output_queue # 0 /\ queue[output_queue] # <<>>
       THEN LET item == Head(queue[output_queue])
                stream == item[1]
                line == item[2]
                mk == EndMarker(loc[t].marker)
                seen == [loc[t] EXCEPT !.seen = Append(@, item)]
            IN /\ queue' = [queue EXCEPT ![output_queue] = Tail(@)]
               /\ IF MarkerIn(line, mk)
                  THEN LET before == BeforeMarker(line, mk)
                           l == IF StripText(before) # <<>>
                                THEN Buffered(seen, stream, before) ELSE seen
                       IN /\ loc' = [loc EXCEPT ![t] = l]
                          /\ Return(t, CompletedResult(l.out, l.err))
                  ELSE /\ loc' = [loc EXCEPT ![t] = Buffered(seen, stream, line)]
                       /\ UNCHANGED <<pc, ret, result, lock>>
               /\ UNCHANGED ticked
       ELSE /\ Settled
            /\ loc' = [loc EXCEPT ![t].elapsed = @ + 1]
            /\ ticked' = TRUE
            /\ IF ~Alive(bash_process)
               THEN /\ Goto(t, "cl_lock")
                    /\ ret' = [ret EXCEPT ![t] = "ex_crashed"]
               ELSE UNCHANGED <<pc, ret>>
            /\ UNCHANGED <<queue, result, lock>>
    /\ UNCHANGED <<cmd, callid, calls, bash_process, output_queue, procs, ns,
                   histVars, users, bash_path, slow_host, init_success, session>>

\* A polling loop that takes an empty poll for the end of the output
ExecPollImpatient(t) ==
    /\ pc[t] = "ex_poll"
    /\ IF loc[t].elapsed >= TimeoutPolls
       THEN /\ Goto(t, "ex_intr")
            /\ UNCHANGED <<loc, queue, ticked, ret, result, lock>>
       ELSE IF output_queue # 0 /\ queue[output_queue] # <<>>
       THEN LET item == Head(queue[output_queue])
                stream == item[1]
                line == item[2]
                mk == EndMarker(loc[t].marker)
                seen == [loc[t] EXCEPT !.seen = Append(@, item)]
            IN /\ queue' = [queue EXCEPT ![output_queue] = Tail(@)]
               /\ IF MarkerIn(line, mk)
                  THEN LET before == BeforeMarker(line, mk)
                           l == IF StripText(before) # <<>>
                                THEN Buffered(seen, stream, before) ELSE seen
                       IN /\ loc' = [loc EXCEPT ![t] = l]
                          /\ Return(t, CompletedResult(l.out, l.err))
                  ELSE /\ loc' = [loc EXCEPT ![t] = Buffered(seen, stream, line)]
                       /\ UNCHANGED <<pc, ret, result, lock>>
               /\ UNCHANGED ticked
       ELSE /\ Settled
            /\ loc' = [loc EXCEPT ![t].elapsed = @ + 1]
            /\ ticked' = TRUE
            /\ IF ~Alive(bash_process)
               THEN /\ Goto(t, "cl_lock")
                    /\ ret' = [ret EXCEPT ![t] = "ex_crashed"]
                    /\ UNCHANGED <<result, lock>>
               ELSE Return(t, CompletedResult(loc[t].out, loc[t].err))
            /\ UNCHANGED queue
    /\ UNCHANGED <<cmd, callid, calls, bash_process, output_queue, procs, ns,
                   histVars, users, bash_path, slow_host, init_success, session>>

\* lines 271-302: one turn of the polling loop.  The marker ends it with the
\* composed result (lines 329-338); an empty poll with a dead subprocess
\* calls close(restarting=True); the timeout goes to line 304.
ExecPoll(t) ==
    /\ pc[t] = "ex_poll"
    /\ IF loc[t].elapsed >= TimeoutPolls
       THEN /\ Goto(t, "ex_intr")
            /\ UNCHANGED <<loc, queue, ticked, ret, result, lock>>
       ELSE IF output_queue # 0 /\ queue[output_queue] # <<>>
       THEN LET item == Head(queue[output_queue])
                stream == item[1]
                line == item[2]
                mk == EndMarker(loc[t].marker)
                seen == [loc[t] EXCEPT !.seen = Append(@, item)]
            IN /\ queue' = [queue EXCEPT ![output_queue] = Tail(@)]
               /\ IF MarkerIn(line, mk)
                  THEN LET before == BeforeMarker(line, mk)
                           l == IF StripText(before) # <<>>
                                THEN Buffered(seen, stream, before) ELSE seen
                       IN /\ loc' = [loc EXCEPT ![t] = l]
                          /\ Return(t, CompletedResult(l.out, l.err))
                  ELSE /\ loc' = [loc EXCEPT ![t] = Buffered(seen, stream, line)]
                       /\ UNCHANGED <<pc, ret, result, lock>>
               /\ UNCHANGED ticked
       ELSE /\ Settled
            /\ loc' = [loc EXCEPT ![t].elapsed = @ + 1]
            /\ ticked' = TRUE
            /\ IF ~Alive(bash_process)
               THEN /\ Goto(t, "cl_lock")
                    /\ ret' = [ret EXCEPT ![t] = "ex_crashed"]
               ELSE UNCHANGED <<pc, ret>>
            /\ UNCHANGED <<queue, result, lock>>
    /\ UNCHANGED <<cmd, callid, calls, bash_process, output_queue, procs, ns,
                   histVars, users, bash_path, slow_host, init_success, session>>

\* lines 307-311 and 324-327: write Ctrl-C and the echo of the recovery
\* marker; an exception is logged and the timeout is returned
ExecInterrupt(t) ==
    /\ pc[t] = "ex_intr"
    /\ IF Alive(bash_process)
       THEN /\ WriteStdin(bash_process,
                          <<InterruptLine(loc[t].marker, callid[t])>>, callid[t])
            /\ loc' = [loc EXCEPT ![t].intr = TRUE]
            /\ Goto(t, "ex_recov")
            /\ UNCHANGED <<ret, result, lock>>
       ELSE /\ Return(t, TimeoutResult(loc[t].out, loc[t].err))
            /\ UNCHANGED <<procs, wlog, loc>>
    /\ UNCHANGED <<cmd, callid, calls, bash_process, output_queue, queue,
                   clockVars, issued, ran, users, bash_path, slow_host, init_success, session>>

\* The recovery window ending with the session closed
ExecRecoverCloses(t) ==
    /\ pc[t] = "ex_recov"
    /\ IF loc[t].relapsed >= RecoveryPolls
       THEN /\ Return(t, TimeoutResult(loc[t].out, loc[t].err))
            /\ UNCHANGED <<loc, queue, ticked>>
       ELSE IF output_queue # 0 /\ queue[output_queue] # <<>>
       THEN LET item == Head(queue[output_queue])
                stream == item[1]
                line == item[2]
            IN /\ queue' = [queue EXCEPT ![output_queue] = Tail(@)]
               /\ IF RecoveryMarkerIn(line, EndMarker(loc[t].marker))
                  THEN /\ Return(t, TimeoutResult(loc[t].out, loc[t].err))
                       /\ UNCHANGED loc
                  ELSE /\ loc' = [loc EXCEPT ![t] =
                              Buffered(@, stream,
                                  <<IF stream = "STDOUT" THEN RecoveryOutPrefix
                                    ELSE RecoveryErrPrefix>> \o line)]
                       /\ UNCHANGED <<pc, ret, result, lock>>
               /\ UNCHANGED ticked
       ELSE /\ Settled
            /\ loc' = [loc EXCEPT ![t].relapsed = @ + 1]
            /\ ticked' = TRUE
            /\ UNCHANGED <<pc, ret, result, lock, queue>>
    /\ bash_process' = IF pc'[t] = "idle" THEN 0 ELSE bash_process
    /\ UNCHANGED <<cmd, callid, calls, output_queue, procs, ns,
                   histVars, users, bash_path, slow_host, init_success, session>>

\* lines 314-327: the recovery window, then the timeout result
ExecRecover(t) ==
    /\ pc[t] = "ex_recov"
    /\ IF loc[t].relapsed >= RecoveryPolls
       THEN /\ Return(t, TimeoutResult(loc[t].out, loc[t].err))
            /\ UNCHANGED <<loc, queue, ticked>>
       ELSE IF output_queue # 0 /\ queue[output_queue] # <<>>
       THEN LET item == Head(queue[output_queue])
                stream == item[1]
                line == item[2]
            IN /\ queue' = [queue EXCEPT ![output_queue] = Tail(@)]
               /\ IF RecoveryMarkerIn(line, EndMarker(loc[t].marker))
                  THEN /\ Return(t, TimeoutResult(loc[t].out, loc[t].err))
                       /\ UNCHANGED loc
                  ELSE /\ loc' = [loc EXCEPT ![t] =
                              Buffered(@, stream,
                                  <<IF stream = "STDOUT" THEN RecoveryOutPrefix
                                    ELSE RecoveryErrPrefix>> \o line)]
                       /\ UNCHANGED <<pc, ret, result, lock>>
               /\ UNCHANGED ticked
       ELSE /\ Settled
            /\ loc' = [loc EXCEPT ![t].relapsed = @ + 1]
            /\ ticked' = TRUE
            /\ UNCHANGED <<pc, ret, result, lock, queue>>
    /\ UNCHANGED <<cmd, callid, calls, bash_process, output_queue, procs, ns,
                   histVars, users, bash_path, slow_host, init_success, session>>

(***************************************************************************)
(* close, lines 383-420.                                                   *)
(***************************************************************************)
\* close() entered without taking self._lock
CloseLockUnguarded(t) ==
    /\ pc[t] = "cl_lock"
    /\ Goto(t, IF SessionRunning THEN "cl_exit" ELSE "cl_ret")
    /\ loc' = [loc EXCEPT ![t].sess = IF SessionRunning THEN bash_process ELSE @]
    /\ UNCHANGED <<ret, cmd, result, callid, calls, lock, bash_process,
                   output_queue, worldVars, clockVars, histVars, users,
                   bash_path, slow_host, init_success, session>>

\* lines 384-386: with self._lock; is there a running process
CloseLock(t) ==
    /\ pc[t] = "cl_lock"
    /\ lock = 0
    /\ lock' = t
    /\ Goto(t, IF SessionRunning THEN "cl_exit" ELSE "cl_ret")
    /\ loc' = [loc EXCEPT ![t].sess = IF SessionRunning THEN bash_process ELSE @]
    /\ UNCHANGED <<ret, cmd, result, callid, calls, bash_process,
                   output_queue, worldVars, clockVars, histVars, users, bash_path, slow_host, init_success, session>>

\* lines 390-393: write "exit", flush and close stdin; OSError goes to the
\* handler of line 398
CloseExit(t) ==
    /\ pc[t] = "cl_exit"
    /\ IF Alive(bash_process)
       THEN /\ WriteStdin(bash_process, <<ExitLine(callid[t])>>, callid[t])
            /\ Goto(t, "cl_wait")
       ELSE /\ Goto(t, "cl_term")
            /\ UNCHANGED <<procs, wlog>>
    /\ UNCHANGED <<ret, cmd, loc, result, callid, calls, sessionVars, queue,
                   clockVars, issued, ran, users, bash_path, slow_host, init_success, session>>

\* a finally block that closes the pipes and keeps the handle
CloseFinallyKeepsHandle(t) ==
    /\ UNCHANGED bash_process
    /\ Goto(t, "cl_ret")

\* lines 412-417, the finally block: the handle is cleared
CloseFinally(t) ==
    /\ bash_process' = 0
    /\ Goto(t, "cl_ret")

\* close() sending the kill signal as soon as the graceful wait runs out
CloseWaitKills(t) ==
    /\ pc[t] = "cl_wait"
    /\ IF ~Alive(bash_process)
       THEN /\ CloseFinally(t)
            /\ UNCHANGED ticked
       ELSE /\ Settled
            /\ Goto(t, "cl_kill")
            /\ ticked' = TRUE
            /\ UNCHANGED bash_process
    /\ UNCHANGED <<ret, cmd, loc, result, callid, calls, lock, output_queue,
                   worldVars, ns, histVars, users, bash_path, slow_host,
                   init_success, session>>

\* line 396: wait(timeout=2) returns, or raises TimeoutExpired
CloseWait(t) ==
    /\ pc[t] = "cl_wait"
    /\ IF ~Alive(bash_process)
       THEN /\ CloseFinally(t)
            /\ UNCHANGED ticked
       ELSE /\ Settled
            /\ Goto(t, "cl_term")
            /\ ticked' = TRUE
            /\ UNCHANGED bash_process
    /\ UNCHANGED <<ret, cmd, loc, result, callid, calls, lock, output_queue,
                   worldVars, ns, histVars, users, bash_path, slow_host, init_success, session>>

\* line 401: terminate(); the process ends now or does not respond
CloseTerminate(t) ==
    /\ pc[t] = "cl_term"
    /\ \E dies \in BOOLEAN :
         procs' = IF dies /\ Alive(bash_process)
                  THEN [procs EXCEPT ![bash_process] = Exited(@)]
                  ELSE procs
    /\ Goto(t, "cl_termwait")
    /\ UNCHANGED <<ret, cmd, loc, result, callid, calls, sessionVars, queue,
                   clockVars, histVars, users, bash_path, slow_host, init_success, session>>

\* line 402: wait(timeout=2) after terminate()
CloseTermWait(t) ==
    /\ pc[t] = "cl_termwait"
    /\ IF ~Alive(bash_process)
       THEN /\ CloseFinally(t)
            /\ UNCHANGED ticked
       ELSE /\ Settled
            /\ Goto(t, "cl_kill")
            /\ ticked' = TRUE
            /\ UNCHANGED bash_process
    /\ UNCHANGED <<ret, cmd, loc, result, callid, calls, lock, output_queue,
                   worldVars, ns, histVars, users, bash_path, slow_host, init_success, session>>

\* close() giving up after terminate() without kill()
CloseKillGivesUp(t) ==
    /\ pc[t] = "cl_kill"
    /\ CloseFinally(t)
    /\ ticked' = TRUE
    /\ UNCHANGED <<ret, cmd, loc, result, callid, calls, lock, output_queue,
                   worldVars, ns, histVars, users, bash_path, slow_host,
                   init_success, session>>

\* lines 406-411: kill(), wait(timeout=1), then the finally block.  The kill
\* signal cannot be caught: the process is gone when wait(timeout=1) ends.
CloseKill(t) ==
    /\ pc[t] = "cl_kill"
    /\ procs' = IF Alive(bash_process)
                THEN [procs EXCEPT ![bash_process] = Exited(@)]
                ELSE procs
    /\ CloseFinally(t)
    /\ ticked' = TRUE
    /\ UNCHANGED <<ret, cmd, loc, result, callid, calls, lock, output_queue,
                   queue, ns, histVars, users, bash_path, slow_host, init_success, session>>

\* The end of close: the with block releases self._lock, and the caller goes
\* on: an external close() returns (line 420); line 298 returns the crash
\* message; lines 229, 254 and 348 call _start_session.
CloseReturn(t) ==
    /\ pc[t] = "cl_ret"
    /\ CASE ret[t] = "ext" -> Return(t, <<MsgClosed>>)
         [] ret[t] = "ex_crashed" ->
              Return(t, CrashedResult(loc[t].out, loc[t].err))
         [] OTHER ->
              /\ Goto(t, "ss_lock")
              /\ lock' = 0
              /\ UNCHANGED <<ret, result>>
    /\ UNCHANGED <<cmd, loc, callid, calls, bash_process, output_queue,
                   worldVars, clockVars, histVars, users, bash_path, slow_host, init_success, session>>

(***************************************************************************)
(* The specification.                                                      *)
(***************************************************************************)
ThreadStep(t) ==
    \/ StartLock(t) \/ StartWrite(t) \/ StartPoll(t) \/ StartReturn(t)
    \/ CallRun(t) \/ CallClose(t)
    \/ RunBegin(t) \/ ExecWrite(t) \/ ExecPoll(t)
    \/ ExecInterrupt(t) \/ ExecRecover(t)
    \/ CloseLock(t) \/ CloseExit(t) \/ CloseWait(t) \/ CloseTerminate(t)
    \/ CloseTermWait(t) \/ CloseKill(t) \/ CloseReturn(t)

EnvStep(i) ==
    \/ ShellStep(i) \/ ShellFinish(i) \/ Kill(i)
    \/ ReadStdout(i) \/ ReadStderr(i)

Next ==
    \/ \E t \in Threads : ThreadStep(t)
    \/ \E i \in 1..MaxProcs : EnvStep(i)

Spec == Init /\ [][Next]_vars

SeqSpec == InitSeq /\ [][Next]_vars

SlowSpec == InitSlow /\ [][Next]_vars

(***************************************************************************)
(* The security check of _run alone, on generated command strings.         *)
(***************************************************************************)
RECURSIVE Tails(_)
Tails(n) ==
    IF n = 0 THEN {<<>>}
    ELSE LET shorter == Tails(n - 1) IN
         shorter \cup {Append(s, c) : s \in shorter, c \in {SP, "-", "i", "f"}}

FilterInputs ==
    {p \o tl : p \in {<<"r", "m">>, <<"R", "M">>, <<SP, "m", "v">>, <<"l", "s">>},
               tl \in Tails(MaxTail)}
    \cup {S_rm_ \o S_interactive \o <<SP, "f">>} \cup Commands

\* What lines 345-378 do with a command
Verdict(command) ==
    IF IsTerminateSession(command) THEN "terminate"
    ELSE IF is_dangerous_command_type(command) THEN "blocked"
    ELSE "forwarded"

\* _run(command) is about to be called with a generated command
InitFilter ==
    /\ \E c \in FilterInputs :
         cmd = [t \in Threads |-> IF t = 1 THEN c ELSE <<>>]
    /\ pc = [t \in Threads |-> "idle"]
    /\ ret = [t \in Threads |-> "none"]
    /\ loc = [t \in Threads |-> NoLoc]
    /\ result = [t \in Threads |-> <<>>]
    /\ callid = [t \in Threads |-> 0]
    /\ lock = 0
    /\ bash_process = 0
    /\ output_queue = 0
    /\ procs = <<>>
    /\ queue = <<>>
    /\ ns = 0
    /\ ticked = TRUE
    /\ calls = 0
    /\ wlog = <<>>
    /\ issued = <<>>
    /\ ran = [t \in Threads |-> NoRan]
    /\ users = {}
    /\ bash_path = "unset"
    /\ slow_host = FALSE
    /\ init_success = "unset"
    /\ session = [pc |-> "off"]

FilterApply ==
    /\ users = {}
    /\ result[1] = <<>>
    /\ result' = [result EXCEPT ![1] = <<Txt(Verdict(cmd[1]))>>]
    /\ UNCHANGED <<pc, ret, cmd, loc, callid, calls, users, bash_path, slow_host,
                   init_success, session, sessionVars,
                   worldVars, clockVars, histVars>>

FilterSpec == InitFilter /\ [][FilterApply]_vars

(***************************************************************************)
(* PersistentBashSession (tests/test_command_tool.py): one bash subprocess *)
(* with stderr merged into stdout, one reader thread, and run_command,     *)
(* which returns the output of a command and an exit code.                 *)
(***************************************************************************)

\* commands given to run_command
C_false == <<"f", "a", "l", "s", "e">>
C_ls_missing == <<"l", "s", " ", "/", "x">>
C_sleep == <<"s", "l", "e", "e", "p", " ", "3">>
SessionCommands == {C_pwd, C_cd, C_echo_n, C_false, C_ls_missing, C_sleep}

\* The status bash reports for a user's command ($? right after it).
ExitStatus(c) ==
    CASE c = C_false -> 1
      [] c = C_ls_missing -> 2
      [] OTHER -> 0

\* What a user's command does in this bash (stderr goes to the same pipe):
\* the lines it writes, the text it leaves without a newline, the working
\* directory it leaves, whether it keeps bash busy for a while.
UserCommand(c, cwd) ==
    CASE c = C_pwd ->
           [out |-> <<<<Txt(cwd), NL>>>>, part |-> <<>>, cwd |-> cwd,
            hang |-> FALSE]
      [] c = C_cd ->
           [out |-> <<>>, part |-> <<>>, cwd |-> "D", hang |-> FALSE]
      [] c = C_echo_n ->
           [out |-> <<>>, part |-> <<Txt("x")>>, cwd |-> cwd, hang |-> FALSE]
      [] c = C_ls_missing ->
           [out |-> <<<<Txt("ls: cannot access '/x'"), NL>>>>, part |-> <<>>,
            cwd |-> cwd, hang |-> FALSE]
      [] c = C_sleep ->
           [out |-> <<<<Txt("Done sleeping 3s"), NL>>>>, part |-> <<>>,
            cwd |-> cwd, hang |-> TRUE]
      [] OTHER ->
           [out |-> <<>>, part |-> <<>>, cwd |-> cwd, hang |-> FALSE]

\* command_output_end_signal = f"__CMD_OUTPUT_END__{timestamp_marker}"
command_output_end_signal(stamp) == [k |-> "__CMD_OUTPUT_END__", s |-> stamp]
\* exit_code_signal_prefix = f"__EXIT_CODE__{timestamp_marker}:"
exit_code_signal_prefix(stamp) == [k |-> "__EXIT_CODE__", s |-> stamp]
\* command_processed_signal = f"__COMMAND_PROCESSED__{timestamp_marker}"
command_processed_signal(stamp) == [k |-> "__COMMAND_PROCESSED__", s |-> stamp]

\* lines 129-135: the five lines written to bash for one command: the
\* user's command, echo, EXIT_CODE=$?, the echo of the exit code signal and
\* the echo of the processed signal
full_shell_command(c, stamp) ==
    << [k |-> "cmd", c |-> c, s |-> stamp],
       [k |-> "echo", c |-> <<>>, s |-> stamp],
       [k |-> "EXIT_CODE=$?", c |-> <<>>, s |-> stamp],
       [k |-> "echo_exit_code", c |-> <<>>, s |-> stamp],
       [k |-> "echo_processed", c |-> <<>>, s |-> stamp] >>

\* line.rstrip('\r\n')
RECURSIVE RStripNewline(_)
RStripNewline(line) ==
    IF line # <<>> /\ line[Len(line)] = NL
    THEN RStripNewline(SubSeq(line, 1, Len(line) - 1)) ELSE line

\* str(n) of an integer: what bash substitutes for $EXIT_CODE
Num(n) == [k |-> "int", s |-> n]

\* int(exit_code_str); ValueError gives -999
ParseExitCode(str) ==
    IF Len(str) = 1 /\ str[1].k = "int" THEN str[1].s ELSE 0 - 999

\* "\n".join(output_lines)
RECURSIVE JoinLines(_)
JoinLines(lines) ==
    IF lines = <<>> THEN <<>>
    ELSE IF Len(lines) = 1 THEN Head(lines)
    ELSE Head(lines) \o <<NL>> \o JoinLines(Tail(lines))

\* subprocess.Popen([self.bash_path], ..., stderr=subprocess.STDOUT): status
\* is bash's $?, EXIT_CODE its variable of that name; returncode is <<>>
\* for None and <<n>> once bash has exited with n
NewBash ==
    [alive |-> TRUE, returncode |-> <<>>, stdin |-> <<>>, busy |-> FALSE,
     status |-> 0, EXIT_CODE |-> <<>>, cwd |-> Home, pipe |-> <<>>,
     part |-> <<>>]

\* bash p writes lines to its stdout; text it left without a newline begins
\* the first of them
Write(p, lines) ==
    IF lines = <<>> THEN p
    ELSE [p EXCEPT !.pipe = @ \o <<p.part \o Head(lines)>> \o Tail(lines),
                   !.part = <<>>]

\* bash p once it has exited with code rc
Gone(p, rc) ==
    [p EXCEPT !.alive = FALSE, !.returncode = <<rc>>, !.busy = FALSE,
              !.stdin = <<>>,
              !.pipe = IF p.part = <<>> THEN @ ELSE Append(@, p.part),
              !.part = <<>>]

\* __init__: the session once constructed, its bash started by
\* _start_session
InitSession ==
    /\ pc = [t \in Threads |-> "idle"]
    /\ ret = [t \in Threads |-> "none"]
    /\ cmd = [t \in Threads |-> <<>>]
    /\ loc = [t \in Threads |-> NoLoc]
    /\ result = [t \in Threads |-> <<>>]
    /\ callid = [t \in Threads |-> 0]
    /\ lock = 0
    /\ bash_process = 0
    /\ output_queue = 0
    /\ procs = <<>>
    /\ queue = <<>>
    /\ ns = 0
    /\ ticked = TRUE
    /\ calls = 0
    /\ wlog = <<>>
    /\ issued = <<>>
    /\ ran = [t \in Threads |-> NoRan]
    /\ users = {}
    /\ bash_path = "found"
    /\ slow_host = FALSE
    /\ init_success = "unset"
    /\ session = [pc |-> "idle", process |-> 1, bashes |-> <<NewBash>>,
                  output_queue |-> <<>>, command |-> <<>>, stamp |-> 0,
                  output_lines |-> <<>>, exit_code |-> <<>>, waited |-> 0,
                  calls |-> 0, returned |-> <<>>]

mainVars == <<pc, ret, cmd, loc, result, callid, lock, bash_process,
              output_queue, procs, queue, ns, ticked, calls, wlog, issued, ran,
              users, bash_path, slow_host, init_success>>

\* self.process and self.process.poll() is None
Running == session.process # 0 /\ session.bashes[session.process].alive

\* what run_command returns: the output, the exit code, and (history) the
\* return statement that produced them; exit_code is <<>> for None and
\* <<n>> once an exit code signal was parsed
Returns(output, code, how) == [output |-> output, code |-> code, how |-> how]

\* bash i reads the next line of its stdin and runs it
BashStep(i) ==
    /\ session.pc # "off"
    /\ i \in 1..Len(session.bashes)
    /\ LET p == session.bashes[i]
       IN /\ p.alive /\ ~p.busy /\ p.stdin # <<>>
          /\ LET item == Head(p.stdin)
                 rest == [p EXCEPT !.stdin = Tail(@)]
                 e == UserCommand(item.c, p.cwd)
             IN session' = [session EXCEPT !.bashes[i] =
                  CASE item.k = "cmd" ->
                         IF e.hang THEN [p EXCEPT !.busy = TRUE]
                         ELSE [Write(rest, e.out) EXCEPT
                                 !.part = @ \o e.part, !.cwd = e.cwd,
                                 !.status = ExitStatus(item.c)]
                    [] item.k = "echo" ->
                         [Write(rest, <<<<NL>>>>) EXCEPT !.status = 0]
                    [] item.k = "EXIT_CODE=$?" ->
                         [rest EXCEPT !.EXIT_CODE = <<Num(p.status)>>,
                                      !.status = 0]
                    [] item.k = "echo_exit_code" ->
                         [Write(rest, <<<<exit_code_signal_prefix(item.s)>>
                                           \o p.EXIT_CODE \o <<NL>>>>)
                            EXCEPT !.status = 0]
                    [] OTHER -> \* "echo_processed"
                         [Write(rest, <<<<command_processed_signal(item.s), NL>>>>)
                            EXCEPT !.status = 0]]
    /\ UNCHANGED mainVars

\* a command that kept bash i busy ends
BashFinish(i) ==
    /\ session.pc # "off"
    /\ i \in 1..Len(session.bashes)
    /\ LET p == session.bashes[i]
       IN /\ p.alive /\ p.busy
          /\ LET item == Head(p.stdin)
                 e == UserCommand(item.c, p.cwd)
             IN session' = [session EXCEPT !.bashes[i] =
                  [Write([p EXCEPT !.stdin = Tail(@), !.busy = FALSE], e.out)
                     EXCEPT !.part = @ \o e.part, !.cwd = e.cwd,
                            !.status = ExitStatus(item.c)]]
    /\ UNCHANGED mainVars

\* bash i is killed from outside
BashKilled(i) ==
    /\ session.pc # "off"
    /\ i \in 1..Len(session.bashes)
    /\ session.bashes[i].alive
    /\ session' = [session EXCEPT !.bashes[i] = Gone(@, 0 - 9)]
    /\ UNCHANGED mainVars

\* lines 84-97, _enqueue_output: q.put(line) for each line read from the pipe
\* of bash i; self.output_queue is the one queue of the session
enqueue_output(i) ==
    /\ session.pc # "off"
    /\ i \in 1..Len(session.bashes)
    /\ session.bashes[i].pipe # <<>>
    /\ session' = [session EXCEPT
                     !.output_queue = Append(@, Head(session.bashes[i].pipe)),
                     !.bashes[i].pipe = Tail(@)]
    /\ UNCHANGED mainVars

\* A wait of 0.1 s on the queue runs out only when nothing is on its way:
\* no line is in a pipe, and bash is busy, has nothing to read, or is gone.
Quiet ==
    /\ session.output_queue = <<>>
    /\ \A i \in 1..Len(session.bashes) :
         /\ session.bashes[i].pipe = <<>>
         /\ \/ ~session.bashes[i].alive
            \/ session.bashes[i].busy
            \/ session.bashes[i].stdin = <<>>

\* lines 99-119: run_command(command): restart the session when bash is not
\* running (_start_session, lines 53-82), then generate the markers
run_command(c) ==
    /\ session.pc = "idle"
    /\ session.calls < MaxCalls
    /\ LET called == [session EXCEPT !.command = c, !.calls = @ + 1,
                        !.stamp = session.calls + 1, !.returned = <<>>,
                        !.output_lines = <<>>, !.exit_code = <<>>,
                        !.waited = 0]
       IN IF Running
          THEN session' = [called EXCEPT !.pc = "write"]
          ELSE \E started \in BOOLEAN :
                 IF started
                 THEN /\ Len(session.bashes) < MaxProcs
                      /\ session' = [called EXCEPT
                                       !.bashes = Append(@, NewBash),
                                       !.process = Len(session.bashes) + 1,
                                       !.pc = "write"]
                 ELSE session' = [called EXCEPT
                        !.process = 0, !.pc = "idle",
                        !.returned = Returns(<<Txt("Error: Failed to restart bash process")>>,
                                             0 - 1, "restart failed")]
    /\ UNCHANGED mainVars

\* lines 137-157: write full_shell_command to bash; when bash has exited in
\* the meantime the write fails, and what is in the queue is returned with -1
run_command_write ==
    /\ session.pc = "write"
    /\ IF Running
       THEN session' = [session EXCEPT
                          !.bashes[session.process].stdin =
                             @ \o full_shell_command(session.command, session.stamp),
                          !.pc = "loop"]
       ELSE session' = [session EXCEPT
              !.output_queue = <<>>,
              !.pc = "idle",
              !.returned = Returns(
                  JoinLines([n \in 1..Len(session.output_queue) |->
                               RStripNewline(session.output_queue[n])]),
                  0 - 1, "write failed")]
    /\ UNCHANGED mainVars

\* lines 159-225: one turn of the loop of run_command, and what follows the
\* loop when the processed signal ends it
run_command_loop ==
    /\ session.pc = "loop"
    /\ IF session.waited >= TimeoutPolls
       THEN session' = [session EXCEPT
              !.pc = "idle",
              !.returned = Returns(JoinLines(session.output_lines)
                                     \o <<NL, Txt("[TIMEOUT]")>>,
                                   0 - 1, "timeout")]
       ELSE IF session.output_queue # <<>>
       THEN LET line == RStripNewline(Head(session.output_queue))
                got == [session EXCEPT !.output_queue = Tail(@)]
            IN IF line = <<command_processed_signal(session.stamp)>>
               THEN LET lines == session.output_lines
                        kept == IF lines # <<>> /\ lines[Len(lines)] = <<>>
                                THEN SubSeq(lines, 1, Len(lines) - 1)
                                ELSE lines
                    IN session' = [got EXCEPT
                         !.output_lines = kept,
                         !.pc = "idle",
                         !.returned = Returns(JoinLines(kept),
                             IF session.exit_code # <<>>
                             THEN session.exit_code[1] ELSE 0 - 1,
                             "completed")]
               ELSE IF line # <<>> /\ Head(line) = exit_code_signal_prefix(session.stamp)
               THEN session' = [got EXCEPT !.exit_code = <<ParseExitCode(Tail(line))>>]
               ELSE IF line = <<command_output_end_signal(session.stamp)>>
               THEN session' = got
               ELSE session' = [got EXCEPT !.output_lines = Append(@, line)]
       ELSE /\ Quiet
            /\ IF ~Running
               THEN session' = [session EXCEPT
                      !.pc = "idle",
                      !.returned = Returns(JoinLines(session.output_lines),
                          session.bashes[session.process].returncode[1],
                          "bash terminated")]
               ELSE session' = [session EXCEPT !.waited = @ + 1]
    /\ UNCHANGED mainVars

\* lines 227-267: close(): exit is written and bash waited for, killed when
\* it does not exit; the reader thread is joined, the queue emptied
close ==
    /\ session.pc = "idle"
    /\ session.process # 0
    /\ LET i == session.process
           p == session.bashes[i]
       IN session' = [session EXCEPT
            !.bashes[i] = [(IF p.alive
                            THEN Gone(p, IF p.busy THEN 0 - 9 ELSE 0) ELSE p)
                             EXCEPT !.pipe = <<>>],
            !.output_queue = <<>>,
            !.process = 0]
    /\ UNCHANGED mainVars

SessionNext ==
    \/ \E c \in SessionCommands : run_command(c)
    \/ run_command_write
    \/ run_command_loop
    \/ close
    \/ \E i \in 1..MaxProcs :
         BashStep(i) \/ BashFinish(i) \/ BashKilled(i) \/ enqueue_output(i)

SessionSpec == InitSession /\ [][SessionNext]_vars


(***************************************************************************)
(* Properties.                                                             *)
(***************************************************************************)
\* thread t is inside a _run call (the command is still set while it runs)
InRun(t) == pc[t] # "idle" /\ cmd[t] # <<>>

\* thread t has returned from a _run call
Returned(t) == pc[t] = "idle" /\ cmd[t] # <<>> /\ result[t] # <<>>

\* the _run call of thread t has written to the subprocess and not returned
InFlight(t) == InRun(t) /\ \E i \in 1..Len(wlog) : wlog[i] = callid[t]

HasPrefix(s, p) == Len(p) <= Len(s) /\ SubSeq(s, 1, Len(p)) = p

\* the lines of one stream among the queue entries the polling loop consumed
SeenLines(l, stream) ==
    LET sel == SelectSeq(l.seen, LAMBDA it : it[1] = stream)
    IN [i \in 1..Len(sel) |-> sel[i][2]]

\* the two parts of a timeout message
TimeoutStdout(r) ==
    LET i == CHOOSE j \in 1..Len(r) : r[j] = MsgStderrPart
    IN SubSeq(r, 2, i - 1)
TimeoutStderr(r) ==
    LET i == CHOOSE j \in 1..Len(r) : r[j] = MsgStderrPart
    IN SubSeq(r, i + 1, Len(r))

\* the stdout part of the string a completed command returns
StdoutPart(r) ==
    IF Head(r) = MsgStderrOnly \/ Head(r) = MsgNoOutput THEN <<>>
    ELSE IF Head(r) = MsgStdoutLabel
    THEN LET i == CHOOSE j \in 1..Len(r) : r[j] = MsgStderrLabel
         IN SubSeq(r, 3, i - 2)
    ELSE r

\* the words of a command
RECURSIVE Words(_)
Words(s) ==
    IF s = <<>> THEN <<>>
    ELSE IF Head(s) = SP THEN Words(Tail(s))
    ELSE LET ends == {j \in 1..Len(s) : s[j] = SP}
             n == IF ends = {} THEN Len(s) + 1
                  ELSE CHOOSE j \in ends : \A h \in ends : j <= h
         IN <<SubSeq(s, 1, n - 1)>> \o Words(SubSeq(s, n, Len(s)))

\* a word that is the option --interactive, or short options with i among them
InteractiveOption(w) ==
    \/ w = Tail(S_interactive)
    \/ /\ Len(w) >= 2 /\ w[1] = "-" /\ w[2] # "-"
       /\ \E j \in 2..Len(w) : w[j] = "i"

\* C1: two concurrent execute calls on one tool are served one after the
\* other: at most one call that has written its command is still waiting for
\* its result, and the writes of a call are never split by those of another.
C1_Serialized ==
    /\ \A t1, t2 \in Threads : (InFlight(t1) /\ InFlight(t2)) => t1 = t2
    /\ \A i, j \in 1..Len(wlog) : (wlog[i] # 0 /\ wlog[i] = wlog[j]) => i = j
    /\ \A t \in Threads : InFlight(t) => wlog[Len(wlog)] = callid[t]

\* C1 happens: one call waits for its marker while another waits to start
C1_SecondCallWaits ==
    \E t1, t2 \in Threads :
        /\ t1 # t2
        /\ pc[t1] = "ex_poll" /\ InFlight(t1)
        /\ pc[t2] = "run_lock"

\* C2: an execute call never blocks for good: while it has not returned it
\* can take its next step, unless output is still on its way to the queue or
\* another thread holds the lock.
C2_ExecuteNeverBlocks ==
    \A t \in Threads :
        InRun(t) => \/ ENABLED ThreadStep(t)
                    \/ ~Settled
                    \/ lock \notin {0, t}

\* C3: a call that ran out of time is never stuck and returns the timeout
\* message once the command timeout and at most the recovery window have
\* passed, and the message carries every stdout and stderr line consumed
\* before the timeout.
C3_TimeoutBoundedAndCarries ==
    \A t \in Threads :
        /\ loc[t].elapsed <= TimeoutPolls
        /\ loc[t].relapsed <= RecoveryPolls
        /\ pc[t] \in {"ex_intr", "ex_recov"} =>
              /\ loc[t].elapsed = TimeoutPolls
              /\ ENABLED ThreadStep(t) \/ ~Settled
        /\ (Returned(t) /\ ResultClass(result[t]) = "Timeout") =>
              /\ loc[t].elapsed = TimeoutPolls
              /\ HasPrefix(TimeoutStdout(result[t]),
                           JoinStrip(SeenLines(loc[t], "STDOUT")))
              /\ HasPrefix(TimeoutStderr(result[t]),
                           JoinStrip(SeenLines(loc[t], "STDERR")))

\* C3 happens: a timeout message after lines of both streams were consumed
C3_TimeoutWithOutput ==
    \E t \in Threads :
        /\ Returned(t) /\ ResultClass(result[t]) = "Timeout"
        /\ SeenLines(loc[t], "STDOUT") # <<>>
        /\ SeenLines(loc[t], "STDERR") # <<>>
        /\ loc[t].relapsed = RecoveryPolls

\* C4: when the subprocess is killed while a command is in flight, the call
\* that finds it dead goes on to return the crash message.
C4_CrashedCallReturns ==
    \A t \in Threads : ret[t] = "ex_crashed" => ENABLED ThreadStep(t)

\* C5: a call with a dangerous command returns the refusal and leaves the
\* subprocesses, their pipes, the queue, the session fields and the markers
\* as they were, whatever state the session is in.
C5_BlockedNoSideEffect ==
    [][\A t \in Threads :
         (/\ pc[t] = "run_lock" /\ pc'[t] # "run_lock"
          /\ ~IsTerminateSession(cmd[t])
          /\ is_dangerous_command_type(cmd[t]))
         => /\ pc'[t] = "idle"
            /\ ResultClass(result'[t]) = "SecurityBlocked"
            /\ UNCHANGED <<procs, queue, bash_process, output_queue, wlog,
                           issued>>]_vars

\* C5 happens: a refusal returned while the queue of a running session holds
\* lines
C5_BlockedWithPendingOutput ==
    \E t \in Threads :
        /\ Returned(t) /\ ResultClass(result[t]) = "SecurityBlocked"
        /\ SessionRunning
        /\ queue[output_queue] # <<>>

\* C6: a command whose first word, trimmed and case-folded, is rm or mv is
\* forwarded exactly when -i or --interactive is among its options.
C6_ForwardedIffInteractive ==
    result[1] # <<>> =>
        LET w == Words(command_lower_stripped(cmd[1]))
        IN (w # <<>> /\ w[1] \in {<<"r", "m">>, <<"m", "v">>}) =>
              (result[1] = <<Txt("forwarded")>>
                 <=> \E i \in 2..Len(w) : InteractiveOption(w[i]))

\* C7: the state of the shell persists between calls: no step of an execute
\* call replaces a subprocess that is alive, and pwd right after a completed
\* cd D answers D.
C7_ShellStatePersists ==
    [][/\ (SessionRunning /\ bash_process' # bash_process) =>
            \E t \in Threads : pc'[t] # pc[t] /\ ret[t] \in {"ext", "term_done"}
       /\ \A t \in Threads :
            (/\ pc'[t] = "idle" /\ cmd'[t] = C_pwd
             /\ ResultClass(result'[t]) = "Success"
             /\ loc'[t].prev = [c |-> C_cd, cls |-> "Success"])
            => StdoutPart(result'[t]) = <<Txt("D")>>]_vars

\* C7 happens: pwd has answered D after cd D completed
C7_PwdAfterCd ==
    \E t \in Threads :
        /\ Returned(t) /\ cmd[t] = C_pwd
        /\ loc[t].prev = [c |-> C_cd, cls |-> "Success"]
        /\ result[t] = <<Txt("D")>>
        /\ bash_process = 1

\* C8: a call whose command wrote lines to stdout and nothing to stderr and
\* ended before the timeout returns exactly those lines, with nothing left
\* over from earlier commands.
C8_ExactRoundTrip ==
    \A t \in Threads :
        (/\ Returned(t) /\ ran[t].done /\ ran[t].err = <<>>
         /\ ResultClass(result[t]) # "Timeout")
        => result[t] = CompletedResult(ran[t].out, <<>>)

\* C9: close() on a session that is not running does nothing and returns:
\* the caller gets the lock, unless another thread holds it.
C9_CloseOnTerminatedReturns ==
    \A t \in Threads :
        (pc[t] = "cl_lock" /\ ~SessionRunning) =>
            (ENABLED CloseLock(t) \/ lock \notin {0, t})

\* C10: no two commands of one run get the same end marker.
C10_MarkersUnique ==
    \A i, j \in 1..Len(issued) : issued[i] = issued[j] => i = j

\* C11: terminate_session closes the session and relaunches it and returns a
\* status: once the call has the lock it is never stuck, and when it has
\* returned the status of success the tool owns a running subprocess.
C11_TerminateSessionReturns ==
    \A t \in Threads :
        /\ (InRun(t) /\ IsTerminateSession(cmd[t]) /\ pc[t] # "run_lock") =>
              (ENABLED ThreadStep(t) \/ ~Settled)
        /\ (Returned(t) /\ result[t] = <<MsgTermOk>>) => bash_process # 0

\* C12: a call entered while the session is not running restarts it before
\* any write: having found the session not running it goes on, to a write on
\* the new subprocess or to the StartFailed message.
C12_RestartBeforeWrite ==
    \A t \in Threads :
        (InRun(t) /\ ret[t] = "ex_restarted") =>
            /\ ENABLED ThreadStep(t)
            /\ ~InFlight(t) \/ SessionRunning

\* C13: a call whose write failed goes on to one restart and one retry of
\* the same command, and returns the failure if the retry fails too.
C13_WriteFailureRetriedOnce ==
    \A t \in Threads :
        (InRun(t) /\ ret[t] = "ex_retry") =>
            (ENABLED ThreadStep(t) \/ ~Settled)

\* C14: a timeout never restarts the session: in no step of the polling and
\* recovery loops is a subprocess closed or launched, and when a call returns
\* the timeout message the tool owns the subprocess the command was written
\* to.
C14_TimeoutKeepsSession ==
    [][\A t \in Threads :
         /\ (pc[t] \in {"ex_poll", "ex_intr", "ex_recov"}
             /\ pc'[t] \in {"ex_poll", "ex_intr", "ex_recov", "idle"}) =>
               /\ UNCHANGED <<bash_process, output_queue>>
               /\ Len(procs') = Len(procs)
         /\ (pc[t] # "idle" /\ pc'[t] = "idle"
             /\ ResultClass(result'[t]) = "Timeout") =>
               /\ loc'[t].sess # 0
               /\ bash_process' = loc'[t].sess]_vars

\* C14 happens: a call has returned the timeout message and the session
\* still runs
C14_TimeoutReturned ==
    \E t \in Threads :
        /\ Returned(t) /\ ResultClass(result[t]) = "Timeout"
        /\ SessionRunning /\ bash_process = loc[t].sess

\* C15: after a call returned a failure, the next call of a command that
\* completes promptly returns Success (the subprocess being alive).
C15_UsableAfterFailure ==
    \A t \in Threads :
        (/\ Returned(t) /\ cmd[t] \in {C_pwd, C_cd}
         /\ SessionRunning
         /\ loc[t].prev.cls \in {"Timeout", "Crashed", "WriteFailed",
                                 "SecurityBlocked", "StartFailed"})
        => ResultClass(result[t]) = "Success"

\* C16: once _find_bash found no shell, every call returns a failure: it is
\* never stuck.
C16_NotFoundCallsReturn ==
    \A t \in Threads :
        (bash_path = "none" /\ InRun(t)) => ENABLED ThreadStep(t)

\* C17: the result of a completed command is composed from the two buffers:
\* stderr alone gives the error text, both give both texts under their
\* labels, neither gives the no-output text, stdout alone gives stdout.
C17_ResultComposition ==
    \A t \in Threads :
        (Returned(t) /\ ResultClass(result[t]) = "Success") =>
            LET o == JoinStrip(loc[t].out)
                e == JoinStrip(loc[t].err)
            IN /\ (e # <<>> /\ o = <<>>) => result[t] = <<MsgStderrOnly>> \o e
               /\ (e # <<>> /\ o # <<>>) =>
                     result[t] = <<MsgStdoutLabel, NL>> \o o
                                   \o <<NL, MsgStderrLabel, NL>> \o e
               /\ (e = <<>> /\ o = <<>>) => result[t] = <<MsgNoOutput>>
               /\ (e = <<>> /\ o # <<>>) => result[t] = o

\* C17 happens: a completed command with text in both buffers
C17_BothBuffers ==
    \E t \in Threads :
        /\ Returned(t) /\ Head(result[t]) = MsgStdoutLabel
        /\ JoinStrip(loc[t].out) # <<>> /\ JoinStrip(loc[t].err) # <<>>

\* C18: no thread waits for the session lock while it holds it.
C18_NoSelfAcquire ==
    \A t \in Threads :
        pc[t] \in {"run_lock", "cl_lock", "ss_lock"} => lock # t

\* C19: the security check comes before the lock: a call with a dangerous
\* command made while the command of another caller is in flight can return
\* at once.
C19_FilterBeforeLock ==
    \A t \in Threads :
        (/\ pc[t] = "run_lock"
         /\ ~IsTerminateSession(cmd[t]) /\ is_dangerous_command_type(cmd[t])
         /\ \E u \in Threads : u # t /\ InFlight(u))
        => ENABLED RunBegin(t)

\* C20: close and relaunch exclude a command in flight: while a call is
\* between its write and its return, the subprocess handle and the queue
\* stay as they are, no subprocess is launched, and every other thread is
\* idle or waiting for the lock, so that an external close() begins only
\* after the call has returned.
C20_NoCloseDuringFlight ==
    [][\A t \in Threads :
         (InFlight(t) /\ InFlight(t)') =>
            /\ UNCHANGED <<bash_process, output_queue>>
            /\ Len(procs') = Len(procs)
            /\ \A u \in Threads \ {t} :
                 pc'[u] \in {"idle", "run_lock", "cl_lock", "ss_lock"}]_vars

\* C20 happens: an external close() waits while a command is in flight
C20_CloseWaitsForCommand ==
    \E t, u \in Threads :
        /\ t # u
        /\ InFlight(t) /\ pc[t] = "ex_poll"
        /\ pc[u] = "cl_lock" /\ ret[u] = "ext"

C22_EscalationOrder ==
    [][\A t \in Threads :
         /\ (pc'[t] = "cl_exit" /\ pc[t] # "cl_exit") => pc[t] = "cl_lock"
         /\ (pc'[t] = "cl_wait" /\ pc[t] # "cl_wait") =>
               /\ pc[t] = "cl_exit"
               /\ LET sent == procs'[bash_process].stdin
                  IN sent # <<>> /\ sent[Len(sent)] = ExitLine(callid[t])
         /\ (pc'[t] = "cl_term" /\ pc[t] # "cl_term") =>
               \/ pc[t] = "cl_exit" /\ ~Alive(bash_process)
               \/ pc[t] = "cl_wait" /\ Alive(bash_process)
         /\ (pc'[t] = "cl_termwait" /\ pc[t] # "cl_termwait") =>
               pc[t] = "cl_term"
         /\ (pc'[t] = "cl_kill" /\ pc[t] # "cl_kill") =>
               pc[t] = "cl_termwait" /\ Alive(bash_process)
         /\ (pc[t] \in {"cl_wait", "cl_termwait"} /\ pc'[t] # pc[t]
                /\ ~Alive(bash_process)) =>
               pc'[t] = "cl_ret" /\ procs' = procs
    ]_vars

\* C22 happens: close() has reached kill(): bash answered neither the exit
\* directive nor terminate().
C22_KillReached ==
    \E t \in Threads : pc[t] = "cl_kill" /\ Alive(bash_process)

C24_NoWriteToTerminated ==
    /\ \A t \in Threads :
          /\ pc[t] \in {"ex_write", "ex_intr", "ex_recov"} =>
                loc[t].sess # 0 /\ bash_process = loc[t].sess
          /\ ret[t] \in {"ex_crashed", "ex_restarted"} =>
                pc[t] \notin {"ex_write", "ex_intr", "ex_recov"}
    /\ \A i \in 1..Len(procs) :
          procs[i].stdin # <<>> => (i = bash_process /\ procs[i].alive)

\* C24 happens: a call that found the subprocess running has written the
\* command, and after the timeout the interrupt, to it.
C24_InterruptWritten ==
    \E t \in Threads :
        /\ pc[t] = "ex_recov" /\ loc[t].intr
        /\ loc[t].sess = bash_process
        /\ \E k \in 1..Len(procs[bash_process].stdin) :
              procs[bash_process].stdin[k] = InterruptLine(loc[t].marker, callid[t])

\* C25: the handshake is lenient: when the init marker was not seen within
\* init_timeout and the spawn had succeeded, the launch ends with
\* self.bash_process still the spawned subprocess (a running session while it
\* is alive), no other subprocess is spawned, and the calls that follow
\* write to that subprocess.
C25_LenientHandshake ==
    init_success = "missed" =>
        /\ Len(procs) = 1
        /\ \A t \in Threads :
              /\ pc[t] = "ss_ret" => bash_process = 1
              /\ (pc[t] = "idle" /\ callid[t] = 0 /\ procs[1].alive) =>
                    SessionRunning
              /\ pc[t] \in {"ex_write", "ex_poll", "ex_intr", "ex_recov"} =>
                    loc[t].sess = 1 /\ bash_process = 1

\* C25 happens: the launch missed the init marker, and the call after it has
\* run its command in the subprocess of that launch and returned its output.
C25_UsedAfterMissedHandshake ==
    \E t \in Threads :
        /\ init_success = "missed"
        /\ Returned(t) /\ ResultClass(result[t]) = "Success"
        /\ ran[t].started /\ ran[t].echoed
        /\ loc[t].sess = 1 /\ SessionRunning

\* C26: the queue is emptied before the command and its marker are written,
\* so that no entry that was in the queue before the write is taken as output
\* of the command: from the drain to the write the queue holds nothing (the
\* polling loop consumes the queue in order, so an entry that is there at the
\* write is the first one it appends to the buffers of the command).
C26_NoStaleAttributed ==
    \A t \in Threads :
        pc[t] = "ex_write" => queue[output_queue] = <<>>

\* a line that carries an end marker or an init marker
CarriesMarker(line) ==
    \E j \in 1..Len(line) : line[j].k \in {EndMarker(0).k, InitMarker(0).k}

\* C27: only the marker of the current command ends the wait: a call that
\* returned the result of a completed command stopped at a line that carries
\* its own marker, which bash wrote by running the echo of this call; every
\* entry consumed before it, the lines carrying other markers among them,
\* went to the buffers as output.
C27_OnlyOwnMarkerEnds ==
    \A t \in Threads :
        (Returned(t) /\ ResultClass(result[t]) = "Success") =>
            /\ ran[t].echoed
            /\ loc[t].seen # <<>>
            /\ LET last == loc[t].seen[Len(loc[t].seen)][2]
               IN \E j \in 1..Len(last) : last[j] = EndMarker(loc[t].marker)
            /\ Len(loc[t].out) + Len(loc[t].err) >= Len(loc[t].seen) - 1

\* C27 happens: a call returned the result of a completed command after its
\* polling loop had consumed a line carrying the marker of an earlier command.
C27_StaleMarkerPassed ==
    \E t \in Threads :
        /\ Returned(t) /\ ResultClass(result[t]) = "Success"
        /\ \E i \in 1..(Len(loc[t].seen) - 1) : CarriesMarker(loc[t].seen[i][2])

\* the tokens of a line that precede the first occurrence of tok
UpTo(line, tok) ==
    LET at == {j \in 1..Len(line) : line[j] = tok}
        first == CHOOSE j \in at : \A h \in at : j <= h
    IN IF at = {} THEN line ELSE SubSeq(line, 1, first - 1)

\* C28: when the marker comes on a line that has content before it (output
\* that did not end with a newline), that content is the last entry of the
\* buffer of the stream the line came from, no buffer holds the marker or
\* anything after it, and the call stopped consuming there and returned the
\* result composed from the buffers.
C28_ContentBeforeMarkerKept ==
    \A t \in Threads :
        (Returned(t) /\ ResultClass(result[t]) = "Success"
           /\ loc[t].seen # <<>>) =>
            LET item == loc[t].seen[Len(loc[t].seen)]
                mk == EndMarker(loc[t].marker)
                before == UpTo(item[2], mk)
                buf == IF item[1] = "STDOUT" THEN loc[t].out ELSE loc[t].err
            IN /\ (\E j \in 1..Len(before) : ~IsBlank(before[j])) =>
                     (buf # <<>> /\ buf[Len(buf)] = before)
               /\ \A b \in {loc[t].out, loc[t].err} :
                     \A i \in 1..Len(b) : \A j \in 1..Len(b[i]) :
                         b[i][j] # mk
               /\ result[t] = CompletedResult(loc[t].out, loc[t].err)

\* C28 happens: a command wrote text with no newline after it, the marker
\* came on the same line, and the call returned that text.
C28_PartialLineReturned ==
    \E t \in Threads :
        /\ Returned(t) /\ ResultClass(result[t]) = "Success"
        /\ loc[t].seen # <<>>
        /\ LET item == loc[t].seen[Len(loc[t].seen)]
           IN /\ item[1] = "STDOUT"
              /\ UpTo(item[2], EndMarker(loc[t].marker)) = <<Txt("x")>>
        /\ result[t] = <<Txt("x")>>

\* C29: when the subprocess exits during a command before the marker of the
\* command is seen, the call returns the crash message: a call that has
\* written its command to a subprocess that is gone is either still in the
\* polling loop, where the next empty poll sees it, or on its way to return
\* the crash message and able to go on (never on the timeout path).
C29_ExitMeansCrashed ==
    \A t \in Threads :
        (InFlight(t) /\ loc[t].sess # 0 /\ ~procs[loc[t].sess].alive) =>
            \/ pc[t] = "ex_poll"
            \/ ret[t] = "ex_crashed" /\ ENABLED ThreadStep(t)

\* the polling loop of thread t has consumed a line carrying the call's marker
OwnMarkerSeen(t) ==
    \E i \in 1..Len(loc[t].seen) :
        \E j \in 1..Len(loc[t].seen[i][2]) :
            loc[t].seen[i][2][j] = EndMarker(loc[t].marker)

\* C30: the interrupt and the recovery echo after it are written only on a
\* timeout: a call that wrote them had waited out the whole timeout without
\* seeing its marker, and is in the recovery window or has returned the
\* timeout message; a call that returned anything else (a completed
\* command, a crash, a refusal, a failed start) wrote neither.
C30_InterruptOnlyOnTimeout ==
    \A t \in Threads :
        /\ loc[t].intr =>
              /\ loc[t].elapsed >= TimeoutPolls
              /\ ~OwnMarkerSeen(t)
              /\ \/ pc[t] = "ex_recov"
                 \/ Returned(t) /\ ResultClass(result[t]) = "Timeout"
        /\ (Returned(t) /\ ResultClass(result[t]) # "Timeout") => ~loc[t].intr
        /\ pc[t] = "ex_recov" => loc[t].intr

\* C30 happens: a call waited out the timeout, wrote the interrupt and the
\* recovery echo, and returned the timeout message.
C30_InterruptedCallReturned ==
    \E t \in Threads :
        /\ Returned(t) /\ ResultClass(result[t]) = "Timeout"
        /\ loc[t].intr /\ loc[t].elapsed = TimeoutPolls

\* C31: an empty poll of the queue, while the subprocess is alive, neither
\* ends the wait nor changes the session: the call stays in the polling
\* loop, and the handle, the lock, the queue, the subprocesses, the buffers
\* and the result are as they were (so a command that takes longer than one
\* poll and less than the timeout is still waited for).
C31_EmptyPollKeepsWaiting ==
    [][\A t \in Threads :
         (pc[t] = "ex_poll" /\ loc'[t].elapsed = loc[t].elapsed + 1
            /\ Alive(bash_process)) =>
             /\ pc'[t] = "ex_poll"
             /\ UNCHANGED <<sessionVars, procs, queue, result, ret>>
             /\ loc'[t].out = loc[t].out /\ loc'[t].err = loc[t].err
    ]_vars

\* C31 happens: a command kept bash busy for longer than one empty poll,
\* ended before the timeout, and the call returned its result.
C31_SlowCommandCompleted ==
    \E t \in Threads :
        /\ Returned(t) /\ ResultClass(result[t]) = "Success"
        /\ cmd[t] = C_find /\ ran[t].done /\ ran[t].echoed
        /\ loc[t].elapsed >= 1 /\ loc[t].elapsed < TimeoutPolls

\* the lines of one stream on their way to the polling loop, oldest first:
\* those waiting in the queue of subprocess i, then those still in its pipe
InTransit(i, stream) ==
    LET sel == SelectSeq(queue[i], LAMBDA it : it[1] = stream)
    IN [n \in 1..Len(sel) |-> sel[n][2]] \o
       (IF stream = "STDOUT" THEN procs[i].outpipe ELSE procs[i].errpipe)

\* the buffer _execute_command_in_session builds for one stream, followed by
\* the lines of that stream on their way to it
EndToEnd(t, stream) ==
    (IF stream = "STDOUT" THEN loc[t].out ELSE loc[t].err) \o
    InTransit(output_queue, stream)

\* C32: per-stream order is preserved end to end.  For each of stdout and
\* stderr, while a call polls the queue, the lines of the stream in its
\* buffer, then in the queue, then in the pipe, form one sequence in the order
\* the subprocess wrote them: a step only adds lines at its end (the
\* subprocess writes), or moves the oldest line one stage on (a reader, the
\* polling loop); no line overtakes another, is lost or is repeated.
C32_StreamOrderKept ==
    [][\A t \in Threads : \A stream \in {"STDOUT", "STDERR"} :
         (pc[t] = "ex_poll" /\ pc'[t] = "ex_poll" /\ output_queue # 0) =>
             HasPrefix(EndToEnd(t, stream)', EndToEnd(t, stream))
    ]_vars

\* C32 happens: the buffer of a call holds two stdout lines and a stderr
\* line, all of which went through the pipes and the shared queue.
C32_TwoLinesBuffered ==
    \E t \in Threads :
        /\ pc[t] = "ex_poll"
        /\ Len(loc[t].out) >= 2 /\ Len(loc[t].err) >= 1

\* a reader thread of subprocess i puts one more entry into its queue
ReaderPushes(i) ==
    /\ i \in 1..Len(queue) /\ i \in 1..Len(procs)
    /\ Len(queue'[i]) = Len(queue[i]) + 1

\* the stream has ended for the reader: the subprocess is gone and
\* readline() has nothing left to return
EndOfStream(i, stream) ==
    /\ ~procs[i].alive
    /\ (IF stream = "STDOUT" THEN procs[i].outpipe ELSE procs[i].errpipe) = <<>>

\* C33: a reader thread only pushes (tag, line) pairs into the queue of its
\* own subprocess.  The entry it pushes is the next line of its own pipe
\* under its own tag; the step leaves the handle, the queue reference, the
\* lock, every call and every other queue as they were; and once its stream
\* has ended it pushes nothing more.
C33_ReaderOnlyPushes ==
    [][\A i \in 1..Len(queue) :
         ReaderPushes(i) =>
             /\ \E stream \in {"STDOUT", "STDERR"} :
                   LET pipe == IF stream = "STDOUT" THEN procs[i].outpipe
                               ELSE procs[i].errpipe
                   IN /\ ~EndOfStream(i, stream)
                      /\ pipe # <<>>
                      /\ queue'[i] = Append(queue[i], <<stream, Head(pipe)>>)
             /\ \A j \in 1..Len(queue) : j # i => queue'[j] = queue[j]
             /\ Len(queue') = Len(queue) /\ Len(procs') = Len(procs)
             /\ \A j \in 1..Len(procs) : procs'[j].alive = procs[j].alive
             /\ UNCHANGED <<threadVars, sessionVars>>
    ]_vars

\* C33 happens: the readers of a subprocess pushed lines into its queue and
\* both streams have since ended.
C33_ReadersFinished ==
    \E i \in 1..Len(procs) :
        /\ EndOfStream(i, "STDOUT") /\ EndOfStream(i, "STDERR")
        /\ \E n \in 1..Len(queue[i]) : queue[i][n][1] = "STDERR"
        /\ \E n \in 1..Len(queue[i]) : queue[i][n][1] = "STDOUT"

\* C35: when a call returns Success, every line its command wrote to stderr
\* before it finished is in the stderr buffer the result is built from, even
\* though the stderr lines and the stdout marker come through two reader
\* threads.
C35_StderrInSuccess ==
    \A t \in Threads :
        (/\ Returned(t) /\ ResultClass(result[t]) = "Success"
         /\ ran[t].done /\ OwnMarkerSeen(t))
        => \A n \in 1..Len(ran[t].err) :
               \E m \in 1..Len(loc[t].err) : loc[t].err[m] = ran[t].err[n]

\* C36: the session lock is free whenever no _run, close or _start_session
\* call is in progress: the lock is never held by a thread that has returned,
\* whatever the way it returned, so with every thread idle the lock is free.
C36_LockFreeWhenIdle ==
    /\ \A t \in Threads : pc[t] = "idle" => lock # t
    /\ (\A t \in Threads : pc[t] = "idle") => lock = 0

\* C36 happens: a call that took the lock has returned an error (the timeout
\* message), no call is in progress and the lock is free.
C36_ReturnedWithError ==
    /\ \A t \in Threads : pc[t] = "idle"
    /\ lock = 0
    /\ \E t \in Threads :
          Returned(t) /\ ResultClass(result[t]) = "Timeout"

\* C37: for every command that completes before the timeout, run_command
\* returns the exit code of the user's command itself: the status bash
\* reported for that command.
C37_ExitCodeOfCommand ==
    (/\ session.pc = "idle" /\ session.returned # <<>>
     /\ session.returned.how = "completed")
    => session.returned.code = ExitStatus(session.command)
====
